---- MODULE Spec2Model ----
(***************************************************************************)
(* A model of the Okx connector of abraca: the private websocket client    *)
(* (api/okx/ws.rs, PrivateWsClient::run), the REST order gateway           *)
(* (api/okx/rest.rs, RestClient::run and RestClient::post) and the two     *)
(* channels that join them to the strategy side (common/msgs.rs).          *)
(*                                                                         *)
(* Conventions.  A panic (a failed unwrap, unreachable!) ends the task     *)
(* that raised it: its pc becomes "Panicked" and it takes no further step. *)
(* The event channel (tx) is modelled by the sequence of messages sent on  *)
(* it, with its receiver alive and the channel below its capacity.         *)
(***************************************************************************)
EXTENDS Integers, Sequences, FiniteSets, TLC

\* ------------------------------------------------------------- bounds
\* Commands the strategy side sends and frames the private socket delivers.
MaxCmds == 2
MaxFrames == 3
SysMaxCmds == 2
SysMaxFrames == 2

\* ------------------------------------------------------------- values
\* Instruments (common/defs.rs, InstType and Inst), as records.
Spot == [k |-> "Spot"]
Margin == [k |-> "Margin"]
Swap == [k |-> "Swap"]
Futures(d) == [k |-> "Futures", exp_date |-> d]
Options(d, stk, ot) == [k |-> "Options", exp_date |-> d, stk |-> stk, opt_type |-> ot]
Inst(b, q, t) == [exch |-> "Okx", base_ccy |-> b, quote_ccy |-> q, inst_type |-> t]
BtcUsdtSpot == Inst("BTC", "USDT", Spot)
EthUsdSwap == Inst("ETH", "USD", Swap)

\* Client order ids used by the strategy side.
ClOrdIds == {41, 42}

\* common/msgs.rs: Msg::NewOrder, Msg::CancelOrder and one other variant.
NewOrder(i, id, sd, ot, tm, p, s) ==
    [type |-> "NewOrder", inst |-> i, cl_ord_id |-> id, side |-> sd,
     ord_type |-> ot, td_mode |-> tm, px |-> p, sz |-> s]
CancelOrder(i, id) == [type |-> "CancelOrder", inst |-> i, cl_ord_id |-> id]
SigTerm == [type |-> "SigTerm"]

NewOrders ==
    {NewOrder(BtcUsdtSpot, 41, "Buy", "Limit", "Cash", 100, 1),
     NewOrder(EthUsdSwap, 42, "Sell", "Market", "Cross", 200, 2)}
CancelOrders == {CancelOrder(BtcUsdtSpot, 41), CancelOrder(EthUsdSwap, 42)}
Cmds == NewOrders \cup CancelOrders \cup {SigTerm}
SysCmds == {NewOrder(BtcUsdtSpot, 41, "Buy", "Limit", "Cash", 100, 1),
            CancelOrder(BtcUsdtSpot, 41)}

\* ------------------------------------------------------- inbound frames
\* One element of a data frame's "data" array, by the fields it carries.
OrderElem(oid, cid, st) == [k |-> "order", ordId |-> oid, clOrdId |-> cid, state |-> st]
PositionElem(p) == [k |-> "position", pos |-> p]
BalPosElem(bal) == [k |-> "balpos", balData |-> bal]
MalformedElem == [k |-> "malformed"]

\* A websocket message as the read half yields it.  text: Message::Text or
\* another kind (binary, ping, pong, close); json: what the payload parses
\* to; the other fields are the keys of the JSON object ("none", FALSE, 0:
\* the key is absent).
Frame(txt, js, a, hd, d, c, m, i, o, e) ==
    [text |-> txt, json |-> js, arg |-> a, hasData |-> hd, data |-> d,
     code |-> c, msg |-> m, id |-> i, op |-> o, event |-> e]
DataFrame(ch, d) == Frame(TRUE, "object", ch, TRUE, d, "none", FALSE, 0, "none", "none")
LoginFrame(c) ==
    Frame(TRUE, "object", "none", FALSE, <<>>, c, TRUE, 0, "none",
          IF c = "0" THEN "login" ELSE "error")
AckFrame(i, o, c) == Frame(TRUE, "object", "none", TRUE, <<>>, c, TRUE, i, o, "none")
SubscribeFrame(ch) == Frame(TRUE, "object", ch, FALSE, <<>>, "none", FALSE, 0, "none", "subscribe")
NullFrame == Frame(TRUE, "null", "none", FALSE, <<>>, "none", FALSE, 0, "none", "none")
GarbageFrame == Frame(TRUE, "invalid", "none", FALSE, <<>>, "none", FALSE, 0, "none", "none")
BinaryFrame == Frame(FALSE, "invalid", "none", FALSE, <<>>, "none", FALSE, 0, "none", "none")

OrderArrays ==
    {<<>>, <<OrderElem(7, 41, "live")>>,
     <<OrderElem(7, 41, "live"), OrderElem(8, 42, "filled")>>,
     <<OrderElem(8, 42, "filled"), OrderElem(7, 41, "live")>>,
     <<OrderElem(7, 41, "filled"), MalformedElem>>,
     <<OrderElem(9, 0, "mmp_canceled")>>}
PositionArrays == {<<PositionElem(1)>>, <<PositionElem(1), PositionElem(2)>>, <<MalformedElem>>}
BalPosArrays ==
    {<<BalPosElem(<<"BTC", "ETH">>)>>,
     <<BalPosElem(<<"BTC">>), BalPosElem(<<>>)>>,
     <<BalPosElem(<<"BTC", "bad">>)>>}

Frames ==
    {DataFrame("orders", d) : d \in OrderArrays}
    \cup {DataFrame("positions", d) : d \in PositionArrays}
    \cup {DataFrame("balance_and_position", d) : d \in BalPosArrays}
    \cup {DataFrame("books5", <<MalformedElem>>), DataFrame("unknown", <<>>)}
    \cup {LoginFrame("0"), LoginFrame("60009")}
    \cup {AckFrame(41, "order", "0"), AckFrame(41, "order", "1"),
          AckFrame(42, "cancel-order", "1")}
    \cup {SubscribeFrame("orders"), NullFrame, GarbageFrame, BinaryFrame}

SysFrames ==
    {LoginFrame("0"), LoginFrame("60009"),
     AckFrame(41, "order", "0"), AckFrame(41, "order", "1"),
     AckFrame(41, "cancel-order", "1"), AckFrame(42, "order", "1"),
     DataFrame("orders", <<OrderElem(7, 41, "live"), OrderElem(8, 42, "filled")>>)}

VARIABLES
    cmdQ,       \* the command channel: messages sent and not yet received
    cmdOpen,    \* TRUE while a sender of the command channel is alive
    sentCmds,   \* every message sent on the command channel, in order
    bus,        \* the event channel: every message sent on tx, in order
    pc_rest,    \* RestClient::run: "Idle", "Posting", "Returned", "Panicked"
    req,        \* RestClient::run: the command being handled (NoReq: none)
    hdrOk,      \* TRUE iff the credentials make valid header values
    taken,      \* the commands rx.recv() has yielded, in order
    httplog,    \* the HTTP requests handed to the transport, in order
    results,    \* per taken command: the response and what post returned
    pc_priv,    \* PrivateWsClient::run: "Disconnected", "Connected",
                \* "Listening", "Returned", "Panicked"
    priv_exit,  \* why PrivateWsClient::run ended ("none": it has not)
    wire,       \* the commands written to the private socket, in order
    rxlog,      \* the messages read.next() has yielded, in order
    pc_pub,     \* PublicWsClient::run: "Disconnected", "Connected",
                \* "Streaming", "Returned", "Panicked"
    pub_exit,   \* why PublicWsClient::run ended ("none": it has not)
    requested,  \* the (instrument, data type) pairs given to subscribe
    subs,       \* PublicWsClient.subs: the configured instruments
    pub_wire,   \* the commands written to the public socket, in order
    pub_rxlog,  \* the messages ws.next() has yielded, in order
    codec,      \* the conversion exercised: "wire", "canon" ("none": idle)
    dir,        \* "inst": encode then decode; "str": decode then encode
    x_inst,     \* the instrument given
    x_str,      \* the string given, or the encoding of x_inst
    x_back,     \* what decoding x_str returned
    x_str2,     \* the encoding of the decoded instrument
    cpc,        \* "start", "encoded", "decoded", "done", "failed", "panicked"
    x_tuple,    \* the four parts given to TryFrom<(E, C, C, I)>, each a string
    x_from,     \* what building from x_tuple returned
    creds,      \* the credential configured: apikey, secretkey, passphrase ("": empty)
    api,        \* the OkxApi build returned (NoApi: not built yet)
    launched,   \* the client tasks OkxApi::start has started
    sub_log,    \* the subscribe commands constructed, each with the list given
    evQ,        \* the event channel: messages sent on a_tx, not yet received
    evOpen,     \* TRUE while the receiver of the event channel is alive
    got,        \* the messages s_rx.recv() has yielded, in order
    calls,      \* the Strategy callbacks invoked, in order
    reply,      \* the message a callback returned, being sent (NoReq: none)
    s_pc,       \* run_stg_async: "NotStarted", "Recv", "Reply", "Ok", "Err"
    p_pc,       \* per producing task: "Running", "Returned", "Panicked"
    p_kind,     \* per producing task: the variant of the messages it sends
    features,   \* FeatureCenter.features: the features created, in order
    id_map,     \* FeatureCenter.id_map: name -> index into features
    added       \* the names given to add_feature, in order

pubVars == <<pc_pub, pub_exit, requested, subs, pub_wire, pub_rxlog>>
codecVars == <<codec, dir, x_inst, x_str, x_back, x_str2, cpc, x_tuple, x_from>>
featVars == <<features, id_map, added>>
apiVars == <<creds, api, launched, sub_log>>
stgVars == <<evQ, evOpen, got, calls, reply, s_pc, p_pc, p_kind>>
otherVars == <<pubVars, codecVars, apiVars, stgVars, featVars>>
vars == <<cmdQ, cmdOpen, sentCmds, bus, pc_rest, req, hdrOk, taken, httplog,
          results, pc_priv, priv_exit, wire, rxlog, pubVars, codecVars, featVars, apiVars,
          stgVars>>
restVars == <<cmdQ, cmdOpen, sentCmds, pc_rest, req, hdrOk, taken, httplog, results>>
privVars == <<pc_priv, priv_exit, wire, rxlog>>

\* ------------------------------------------------ private websocket client
\* serde's untagged WsMessage: the first variant the payload fits, in the
\* order Data, LoginResult, SubscribeResult, Pong; "Error" when none fits.
\* WsChannel is tagged by "channel" with the five names below.
ValidChannel(a) == a \in {"books5", "trades", "balance_and_position", "positions", "orders"}

WsMessageOf(f) ==
    IF f.json = "invalid" THEN "Error"
    ELSE IF f.json = "null" THEN "Pong"
    ELSE IF ValidChannel(f.arg) /\ f.hasData THEN "Data"
    ELSE IF f.code # "none" /\ f.msg THEN "LoginResult"
    ELSE IF ValidChannel(f.arg) THEN "SubscribeResult"
    ELSE "Error"

\* parser::str_to_ord_state: unreachable!() on any other string.
KnownOrdStates == {"live", "filled", "canceled", "partially_filled"}
str_to_ord_state(s) ==
    CASE s = "live" -> "Live"
      [] s = "filled" -> "Filled"
      [] s = "canceled" -> "Canceled"
      [] s = "partially_filled" -> "PartiallyFilled"

\* The deserialize_* functions: the messages one data element yields, or a
\* panic (ok = FALSE) when a field is missing or does not parse.
Panic == [ok |-> FALSE, out |-> <<>>]
Yield(s) == [ok |-> TRUE, out |-> s]

deserialize_orders(v) ==
    IF v.k # "order" \/ v.state \notin KnownOrdStates THEN Panic
    ELSE Yield(<<[type |-> "ExecutionReport", ord_id |-> v.ordId,
                  cl_ord_id |-> v.clOrdId, state |-> str_to_ord_state(v.state)]>>)

deserialize_positions(v) ==
    IF v.k # "position" THEN Panic
    ELSE Yield(<<[type |-> "PositionReport", pos |-> v.pos]>>)

RECURSIVE BalanceReports(_)
BalanceReports(bal) ==
    IF bal = <<>> THEN <<>>
    ELSE <<[type |-> "BalanceReport", exch |-> "Okx", ccy |-> Head(bal)]>>
         \o BalanceReports(Tail(bal))

\* Mutant of deserialize_balance_and_position: only the first balData entry
\* is reported.
deserialize_balance_and_position_first(v) ==
    IF v.k # "balpos" THEN Panic
    ELSE IF \E i \in DOMAIN v.balData : v.balData[i] = "bad" THEN Panic
    ELSE Yield(BalanceReports(SubSeq(v.balData, 1, 1)))

deserialize_balance_and_position(v) ==
    IF v.k # "balpos" THEN Panic
    ELSE IF \E i \in DOMAIN v.balData : v.balData[i] = "bad" THEN Panic
    ELSE Yield(BalanceReports(v.balData))

DeserializeElem(ch, v) ==
    CASE ch = "balance_and_position" -> deserialize_balance_and_position(v)
      [] ch = "positions" -> deserialize_positions(v)
      [] ch = "orders" -> deserialize_orders(v)

\* Mutant of ForEachData: the elements are handled last to first.
RECURSIVE ForEachData_rev(_, _)
ForEachData_rev(ch, data) ==
    IF data = <<>> THEN Yield(<<>>)
    ELSE LET h == DeserializeElem(ch, data[Len(data)]) IN
         IF ~h.ok THEN Panic
         ELSE LET r == ForEachData_rev(ch, SubSeq(data, 1, Len(data) - 1)) IN
              [ok |-> r.ok, out |-> h.out \o r.out]

\* `for v in data { ... tx.send(..).await.unwrap() }`: the messages sent, in
\* order, up to the first element that panics.
RECURSIVE ForEachData(_, _)
ForEachData(ch, data) ==
    IF data = <<>> THEN Yield(<<>>)
    ELSE LET h == DeserializeElem(ch, Head(data)) IN
         IF ~h.ok THEN Panic
         ELSE LET r == ForEachData(ch, Tail(data)) IN
              [ok |-> r.ok, out |-> h.out \o r.out]

LoginCmd == [op |-> "login"]
SubCmd == [op |-> "subscribe"]

\* The body of the read loop for one message: what it sends on tx (pushed),
\* what it writes to the socket (sent) and how the loop goes on (end).
Outcome(p, s, e) == [pushed |-> p, sent |-> s, end |-> e]

\* Mutant of HandleLoginResult: a successful result is answered with a
\* rejection pushed to the bus.
HandleLoginResult_pushes(f) ==
    IF f.code = "0"
    THEN Outcome(<<[type |-> "CancelReject", inst |-> "none", cl_ord_id |-> f.id]>>,
                 <<SubCmd>>, "none")
    ELSE Outcome(<<>>, <<>>, "login_failed")

\* Mutant of HandleLoginResult: a failed login is retried.
HandleLoginResult_retry(f) ==
    IF f.code = "0" THEN Outcome(<<>>, <<SubCmd>>, "none")
    ELSE Outcome(<<>>, <<LoginCmd>>, "none")

HandleLoginResult(f) ==
    IF f.code = "0" THEN Outcome(<<>>, <<SubCmd>>, "none")
    ELSE Outcome(<<>>, <<>>, "login_failed")

HandleData(f) ==
    IF f.arg \in {"balance_and_position", "positions", "orders"}
    THEN LET r == ForEachData(f.arg, f.data) IN
         Outcome(r.out, <<>>, IF r.ok THEN "none" ELSE "panic_decode")
    ELSE Outcome(<<>>, <<>>, "none")

HandleFrame(f) ==
    IF ~f.text THEN Outcome(<<>>, <<>>, "none")
    ELSE LET m == WsMessageOf(f) IN
         CASE m = "Error" -> Outcome(<<>>, <<>>, "panic_decode")
           [] m = "LoginResult" -> HandleLoginResult(f)
           [] m = "Data" -> HandleData(f)
           [] OTHER -> Outcome(<<>>, <<>>, "none")

\* connect_async(PRIVATE_WS_URL).await.unwrap()
PrivConnect ==
    /\ pc_priv = "Disconnected"
    /\ \/ /\ pc_priv' = "Connected"
          /\ UNCHANGED priv_exit
       \/ /\ pc_priv' = "Panicked"
          /\ priv_exit' = "panic_connect"
    /\ UNCHANGED <<wire, rxlog, bus, restVars, otherVars>>

\* Mutant of PrivLogin: the subscribe command follows the login command at
\* once, without waiting for the login result.
PrivLogin_eager ==
    /\ pc_priv = "Connected"
    /\ wire' = wire \o <<LoginCmd, SubCmd>>
    /\ pc_priv' = "Listening"
    /\ UNCHANGED <<priv_exit, rxlog, bus, restVars, otherVars>>

\* write.send(login_cmd).await.unwrap()
PrivLogin ==
    /\ pc_priv = "Connected"
    /\ \/ /\ wire' = Append(wire, LoginCmd)
          /\ pc_priv' = "Listening"
          /\ UNCHANGED priv_exit
       \/ /\ pc_priv' = "Panicked"
          /\ priv_exit' = "panic_send"
          /\ UNCHANGED wire
    /\ UNCHANGED <<rxlog, bus, restVars, otherVars>>

\* One turn of `while let Some(msg) = read.next().await` on a message f.
PrivRecvFrom(FS, max) ==
    /\ pc_priv = "Listening"
    /\ Len(rxlog) < max
    /\ \E f \in FS :
         LET h == HandleFrame(f) IN
         /\ rxlog' = Append(rxlog, f)
         /\ bus' = bus \o h.pushed
         /\ \/ /\ wire' = wire \o h.sent
               /\ pc_priv' = CASE h.end = "none" -> "Listening"
                                [] h.end = "login_failed" -> "Returned"
                                [] OTHER -> "Panicked"
               /\ priv_exit' = h.end
            \/ /\ h.sent # <<>>
               /\ pc_priv' = "Panicked"
               /\ priv_exit' = "panic_send"
               /\ UNCHANGED wire
    /\ UNCHANGED <<restVars, otherVars>>

\* read.next() yields None: the loop ends and run returns.
PrivClosed ==
    /\ pc_priv = "Listening"
    /\ pc_priv' = "Returned"
    /\ priv_exit' = "closed"
    /\ UNCHANGED <<wire, rxlog, bus, restVars, otherVars>>

\* Mutant of PrivTransportError: the client starts over with a new
\* connection.
PrivTransportError_reconnect ==
    /\ pc_priv = "Listening"
    /\ pc_priv' = "Disconnected"
    /\ priv_exit' = "panic_transport"
    /\ UNCHANGED <<wire, rxlog, bus, restVars, otherVars>>

\* read.next() yields Some(Err(_)): msg.unwrap() panics.
PrivTransportError ==
    /\ pc_priv = "Listening"
    /\ pc_priv' = "Panicked"
    /\ priv_exit' = "panic_transport"
    /\ UNCHANGED <<wire, rxlog, bus, restVars, otherVars>>

\* ------------------------------------------------------ REST order gateway
ChanCap == 1024

NoReq == [type |-> "None"]
NoResp == [transport |-> "none"]

\* An HTTP exchange as RestClient::post sees it.  transport: "err" when
\* send() or text() fails; json: the body parses as JSON; code, msg: the
\* top-level keys ("none": absent or not a string); data: the entries of
\* "data", each with its sCode and sMsg.
Resp(t, j, c, m, d) == [transport |-> t, json |-> j, code |-> c, msg |-> m, data |-> d]
Entry(sc, sm) == [sCode |-> sc, sMsg |-> sm]

Responses ==
    {Resp("err", FALSE, "none", "none", <<>>),
     Resp("ok", FALSE, "none", "none", <<>>),
     Resp("ok", TRUE, "none", "none", <<>>),
     Resp("ok", TRUE, "1", "m1", <<>>),
     Resp("ok", TRUE, "1", "m1", <<Entry("0", "")>>),
     Resp("ok", TRUE, "1", "none", <<>>),
     Resp("ok", TRUE, "0", "", <<>>),
     Resp("ok", TRUE, "0", "", <<Entry("0", "")>>),
     Resp("ok", TRUE, "0", "", <<Entry("51008", "s1")>>),
     Resp("ok", TRUE, "0", "m1", <<Entry("51008", "s1")>>),
     Resp("ok", TRUE, "0", "", <<Entry("none", "s1")>>),
     Resp("ok", TRUE, "0", "", <<Entry("51008", "none")>>),
     Resp("ok", TRUE, "0", "", <<Entry("0", ""), Entry("51008", "s1")>>),
     Resp("ok", TRUE, "0", "", <<Entry("51008", "s1"), Entry("0", "")>>)}

SysResponses ==
    {Resp("err", FALSE, "none", "none", <<>>),
     Resp("ok", TRUE, "1", "m1", <<>>),
     Resp("ok", TRUE, "0", "", <<Entry("0", "")>>),
     Resp("ok", TRUE, "0", "", <<Entry("51008", "s1")>>)}

\* What post returns: Ok(()), Err(message), or a panic of the task.
RetOk == [kind |-> "Ok", msg |-> ""]
RetErr(m) == [kind |-> "Err", msg |-> m]
RetPanic == [kind |-> "Panic", msg |-> ""]
RetIgnored == [kind |-> "Ignored", msg |-> ""]

\* Mutant of post: the per-entry sCode is not looked at.
post_top_code_only(r) ==
    IF r.transport = "err" THEN RetErr("transport")
    ELSE IF ~r.json THEN RetPanic
    ELSE IF r.code = "none" THEN RetPanic
    ELSE IF r.code # "0"
         THEN IF r.msg = "none" THEN RetPanic ELSE RetErr(r.msg)
    ELSE RetOk

\* RestClient::post, from the response on (the headers are built before).
post(r) ==
    IF r.transport = "err" THEN RetErr("transport")
    ELSE IF ~r.json THEN RetPanic
    ELSE IF r.code = "none" THEN RetPanic
    ELSE IF r.code # "0"
         THEN IF r.msg = "none" THEN RetPanic ELSE RetErr(r.msg)
    ELSE IF r.data = <<>> THEN RetPanic
    ELSE IF r.data[1].sCode = "none" THEN RetPanic
    ELSE IF r.data[1].sCode = "0" THEN RetOk
    ELSE IF r.data[1].sMsg = "none" THEN RetPanic
    ELSE RetErr(r.data[1].sMsg)

\* ----------------------------------------------------- instrument codecs
\* A string is the sequence of its tokens and separator characters: "-" and
\* "." stand for themselves, every other element is a run of characters
\* holding neither ("BTC-USD-SWAP" is <<"BTC", "-", "USD", "-", "SWAP">>).
RECURSIVE Split(_, _)
Split(s, sep) ==
    IF s = <<>> THEN << <<>> >>
    ELSE LET r == Split(Tail(s), sep) IN
         IF Head(s) = sep THEN << <<>> >> \o r
         ELSE << <<Head(s)>> \o Head(r) >> \o Tail(r)

\* Ccy (clike_enum!, strum Display and EnumString): the variant's name.
CcyNames == {"Unknown", "BTC", "ETH", "USDT", "USD"}
CcyTryFrom(part) ==
    IF Len(part) = 1 /\ part[1] \in CcyNames
    THEN [ok |-> TRUE, v |-> part[1]] ELSE [ok |-> FALSE, v |-> "Unknown"]
ExchNames == {"Okx", "BinanceFutures"}
OptTypes == {"C", "P"}

\* NaiveDate and chrono's "%y%m%d": format writes the year modulo 100,
\* parse_from_str reads two digits yy as 2000 + yy below 70, else 1900 + yy.
Date(y, m, d) == [y |-> y, m |-> m, d |-> d]
Dates == {Date(2023, 4, 21), Date(1970, 1, 1), Date(2068, 12, 31), Date(2123, 4, 21)}
Pad2(n) == IF n < 10 THEN "0" \o ToString(n) ELSE ToString(n)
FormatYMD(dt) == Pad2(dt.y % 100) \o Pad2(dt.m) \o Pad2(dt.d)
ShortDates ==
    {<<yy, dt.m, dt.d>> : yy \in {dt.y % 100 : dt \in Dates}, dt \in Dates}
ParseYMD(part) ==
    IF Len(part) = 1
       /\ \E t \in ShortDates : Pad2(t[1]) \o Pad2(t[2]) \o Pad2(t[3]) = part[1]
    THEN LET t == CHOOSE t \in ShortDates :
                    Pad2(t[1]) \o Pad2(t[2]) \o Pad2(t[3]) = part[1]
         IN [ok |-> TRUE,
             v |-> Date((IF t[1] < 70 THEN 2000 ELSE 1900) + t[1], t[2], t[3])]
    ELSE [ok |-> FALSE, v |-> Date(0, 0, 0)]

\* i64: Display writes a minus sign and the digits; str::parse reads an
\* optional sign and digits (leading zeros allowed).
Strikes == {0, 10000, 25, -5}
FormatInt(n) == IF n < 0 THEN <<"-", ToString(0 - n)>> ELSE <<ToString(n)>>
IntForms ==
    {<<ToString(n), n>> : n \in {k \in Strikes : k >= 0}}
    \cup {<<"+25", 25>>, <<"025", 25>>}
ParseInt(part) ==
    IF Len(part) = 1 /\ \E f \in IntForms : f[1] = part[1]
    THEN [ok |-> TRUE, v |-> (CHOOSE f \in IntForms : f[1] = part[1])[2]]
    ELSE [ok |-> FALSE, v |-> 0]

\* Results of the decoders: Ok(value), Err(message), or a panic.
Ok(v) == [kind |-> "Ok", v |-> v, err |-> ""]
Err(e) == [kind |-> "Err", v |-> [k |-> "None"], err |-> e]
Panicked(e) == [kind |-> "Panic", v |-> [k |-> "None"], err |-> e]
\* No instrument, no result yet.
NoInst == [exch |-> "None", base_ccy |-> "Unknown", quote_ccy |-> "Unknown", inst_type |-> Spot]
NoResult == [kind |-> "None", v |-> [k |-> "None"], err |-> ""]

\* Mutant of InstTypeToString: Margin is written with Spot's name.
InstTypeToString_margin(t) ==
    CASE t.k \in {"Spot", "Margin"} -> <<"Spot">>
      [] t.k = "Swap" -> <<"Swap">>
      [] t.k = "Futures" -> <<"Futures", "-", FormatYMD(t.exp_date)>>
      [] t.k = "Options" ->
           <<"Options", "-", FormatYMD(t.exp_date), "-">> \o FormatInt(t.stk)
           \o <<"-", t.opt_type>>

\* defs.rs: impl ToString for InstType.
InstTypeToString(t) ==
    CASE t.k \in {"Spot", "Margin", "Swap"} -> <<t.k>>
      [] t.k = "Futures" -> <<"Futures", "-", FormatYMD(t.exp_date)>>
      [] t.k = "Options" ->
           <<"Options", "-", FormatYMD(t.exp_date), "-">> \o FormatInt(t.stk)
           \o <<"-", t.opt_type>>

\* defs.rs: impl TryFrom<&str> for InstType.  parts.next() walks the pieces
\* of value.split('-'); pieces after the ones a variant needs are not read.
InstTypeTryFrom(value) ==
    LET parts == Split(value, "-")
        p0 == parts[1]
        exp_date == ParseYMD(parts[2])
        strike == ParseInt(parts[3])
    IN CASE p0 = <<"Spot">> -> Ok(Spot)
         [] p0 = <<"Margin">> -> Ok(Margin)
         [] p0 = <<"Swap">> -> Ok(Swap)
         [] p0 = <<"Futures">> ->
              IF Len(parts) < 2 THEN Err("expiration date not provided")
              ELSE IF ~exp_date.ok THEN Err("invalid expiration date")
              ELSE Ok(Futures(exp_date.v))
         [] p0 = <<"Options">> ->
              IF Len(parts) < 2 THEN Err("expiration date not provided")
              ELSE IF Len(parts) < 3 THEN Err("strike not provided")
              ELSE IF Len(parts) < 4 THEN Err("option type not provided")
              ELSE IF ~exp_date.ok THEN Err("invalid expiration date")
              ELSE IF ~strike.ok THEN Err("invalid strike")
              ELSE IF ~(Len(parts[4]) = 1 /\ parts[4][1] \in OptTypes)
                   THEN Err("invalid option type")
              ELSE Ok(Options(exp_date.v, strike.v, parts[4][1]))
         [] OTHER -> Err("invalid instrument type")

\* defs.rs: impl ToString for Inst, "{}.{}.{}.{}".
InstToString(inst) ==
    <<inst.exch, ".", inst.base_ccy, ".", inst.quote_ccy, ".">>
    \o InstTypeToString(inst.inst_type)

\* Mutant of InstTryFrom: the instrument type is parsed before the exchange
\* and the currencies.
InstTryFrom_typefirst(value) ==
    LET parts == Split(value, ".")
        base_ccy == CcyTryFrom(parts[2])
        quote_ccy == CcyTryFrom(parts[3])
        inst_type == InstTypeTryFrom(parts[4])
    IN
    IF Len(parts) # 4 THEN Err("invalid instrument")
    ELSE IF inst_type.kind # "Ok" THEN Err("invalid instrument type")
    ELSE IF ~(Len(parts[1]) = 1 /\ parts[1][1] \in ExchNames) THEN Err("invalid exchange")
    ELSE IF ~base_ccy.ok THEN Err("invalid base currency")
    ELSE IF ~quote_ccy.ok THEN Err("invalid quote currency")
    ELSE Ok([exch |-> parts[1][1], base_ccy |-> base_ccy.v,
             quote_ccy |-> quote_ccy.v, inst_type |-> inst_type.v])

\* defs.rs: impl TryFrom<&str> for Inst.
InstTryFrom(value) ==
    LET parts == Split(value, ".")
        base_ccy == CcyTryFrom(parts[2])
        quote_ccy == CcyTryFrom(parts[3])
        inst_type == InstTypeTryFrom(parts[4])
    IN
    IF Len(parts) # 4 THEN Err("invalid instrument")
    ELSE IF ~(Len(parts[1]) = 1 /\ parts[1][1] \in ExchNames) THEN Err("invalid exchange")
    ELSE IF ~base_ccy.ok THEN Err("invalid base currency")
    ELSE IF ~quote_ccy.ok THEN Err("invalid quote currency")
    ELSE IF inst_type.kind # "Ok" THEN Err("invalid instrument type")
    ELSE Ok([exch |-> parts[1][1], base_ccy |-> base_ccy.v,
             quote_ccy |-> quote_ccy.v, inst_type |-> inst_type.v])

\* Mutant of InstTryFromTuple: a currency that does not parse becomes
\* Ccy::default() instead of an error.
InstTryFromTuple_default(exch, base_ccy, quote_ccy, inst_type) ==
    IF ~(Len(exch) = 1 /\ exch[1] \in ExchNames) THEN Err("invalid exchange")
    ELSE IF InstTypeTryFrom(inst_type).kind # "Ok" THEN Err("invalid instrument type")
    ELSE Ok([exch |-> exch[1], base_ccy |-> CcyTryFrom(base_ccy).v,
             quote_ccy |-> CcyTryFrom(quote_ccy).v,
             inst_type |-> InstTypeTryFrom(inst_type).v])

\* defs.rs: impl TryFrom<(E, C, C, I)> for Inst, each part a &str.
InstTryFromTuple(exch, base_ccy, quote_ccy, inst_type) ==
    IF ~(Len(exch) = 1 /\ exch[1] \in ExchNames) THEN Err("invalid exchange")
    ELSE IF ~CcyTryFrom(base_ccy).ok THEN Err("invalid base currency")
    ELSE IF ~CcyTryFrom(quote_ccy).ok THEN Err("invalid quote currency")
    ELSE IF InstTypeTryFrom(inst_type).kind # "Ok" THEN Err("invalid instrument type")
    ELSE Ok([exch |-> exch[1], base_ccy |-> CcyTryFrom(base_ccy).v,
             quote_ccy |-> CcyTryFrom(quote_ccy).v,
             inst_type |-> InstTypeTryFrom(inst_type).v])

\* Mutant of inst_to_str: a swap is written without its "SWAP" suffix.
inst_to_str_noswap(inst) ==
    CASE inst.inst_type.k \in {"Spot", "Margin", "Swap"} ->
           <<inst.base_ccy, "-", inst.quote_ccy>>
      [] inst.inst_type.k = "Futures" ->
           <<inst.base_ccy, "-", inst.quote_ccy, "-", FormatYMD(inst.inst_type.exp_date)>>
      [] inst.inst_type.k = "Options" ->
           <<inst.base_ccy, "-", inst.quote_ccy, "-",
             FormatYMD(inst.inst_type.exp_date), "-">>
           \o FormatInt(inst.inst_type.stk) \o <<"-", inst.inst_type.opt_type>>

\* parser.rs: the exchange's names.
inst_to_str(inst) ==
    CASE inst.inst_type.k \in {"Spot", "Margin"} -> <<inst.base_ccy, "-", inst.quote_ccy>>
      [] inst.inst_type.k = "Swap" -> <<inst.base_ccy, "-", inst.quote_ccy, "-", "SWAP">>
      [] inst.inst_type.k = "Futures" ->
           <<inst.base_ccy, "-", inst.quote_ccy, "-", FormatYMD(inst.inst_type.exp_date)>>
      [] inst.inst_type.k = "Options" ->
           <<inst.base_ccy, "-", inst.quote_ccy, "-",
             FormatYMD(inst.inst_type.exp_date), "-">>
           \o FormatInt(inst.inst_type.stk) \o <<"-", inst.inst_type.opt_type>>

\* parser.rs: str_to_inst.  parts[1] is read before the count is looked at;
\* a currency that does not parse becomes Ccy::default().
str_to_inst(s) ==
    LET parts == Split(s, "-") IN
    IF Len(parts) < 2 THEN Panicked("index out of bounds")
    ELSE LET base_ccy == CcyTryFrom(parts[1]).v
             quote_ccy == CcyTryFrom(parts[2]).v
             formatted ==
               IF Len(parts) = 3 THEN <<"Futures", "-">> \o parts[3]
               ELSE <<"Options", "-">> \o parts[3] \o <<"-">> \o parts[4]
                    \o <<"-">> \o parts[5]
             inst_type ==
               CASE Len(parts) = 2 -> Ok(Spot)
                 [] Len(parts) = 3 /\ parts[3] = <<"SWAP">> -> Ok(Swap)
                 [] Len(parts) \in {3, 5} -> InstTypeTryFrom(formatted)
                 [] OTHER -> Panicked("unreachable")
         IN IF inst_type.kind # "Ok" THEN Panicked(inst_type.err)
            ELSE Ok([exch |-> "Okx", base_ccy |-> base_ccy, quote_ccy |-> quote_ccy,
                     inst_type |-> inst_type.v])

td_mode_to_str(m) ==
    CASE m = "Cross" -> "cross" [] m = "Isolated" -> "isolated" [] m = "Cash" -> "cash"
side_to_str(sd) == CASE sd = "Buy" -> "buy" [] sd = "Sell" -> "sell"
ord_type_to_str(t) ==
    CASE t = "Market" -> "market" [] t = "Limit" -> "limit"
      [] t = "PostOnly" -> "post_only" [] t = "Fok" -> "fok" [] t = "Ioc" -> "ioc"

\* send_order and cancel_order: the path and the JSON body of the request.
send_order(no) ==
    [path |-> "/api/v5/trade/order",
     body |-> [instId |-> inst_to_str(no.inst), tdMode |-> td_mode_to_str(no.td_mode),
               side |-> side_to_str(no.side), ordType |-> ord_type_to_str(no.ord_type),
               px |-> ToString(no.px), sz |-> ToString(no.sz)]]
cancel_order(co) ==
    [path |-> "/api/v5/trade/order",
     body |-> [clOrdId |-> co.cl_ord_id, instId |-> inst_to_str(co.inst)]]
RequestOf(m) == IF m.type = "NewOrder" THEN send_order(m) ELSE cancel_order(m)

\* The event RestClient::run sends on tx when a command fails.
RejectedReport(r) ==
    [type |-> "ExecutionReport", inst |-> r.inst, ord_id |-> 0,
     cl_ord_id |-> r.cl_ord_id, px |-> r.px, sz |-> r.sz,
     ord_type |-> r.ord_type, side |-> r.side, state |-> "Rejected"]
CancelReject(r) == [type |-> "CancelReject", inst |-> r.inst, cl_ord_id |-> r.cl_ord_id]
RejectionOf(m) == IF m.type = "NewOrder" THEN RejectedReport(m) ELSE CancelReject(m)

\* Mutant of OnResult: the rejection is pushed twice.
OnResult_twice(m, ret) ==
    IF ret.kind = "Err" THEN <<RejectionOf(m), RejectionOf(m)>> ELSE <<>>

\* `if let Err(msg) = ... { tx.send(..).await.unwrap() }`
OnResult(m, ret) == IF ret.kind = "Err" THEN <<RejectionOf(m)>> ELSE <<>>

Result(r, ret, p) == [resp |-> r, ret |-> ret, pushed |-> p]

\* The strategy side: s_tx.send(msg).await on the command channel.
SendCmdFrom(CS, max) ==
    /\ cmdOpen
    /\ Len(sentCmds) < max
    /\ Len(cmdQ) < ChanCap
    /\ \E c \in CS :
         /\ cmdQ' = Append(cmdQ, c)
         /\ sentCmds' = Append(sentCmds, c)
    /\ UNCHANGED <<cmdOpen, pc_rest, req, hdrOk, taken, httplog, results, bus, privVars, otherVars>>

\* The last sender of the command channel is dropped.
DropSender ==
    /\ cmdOpen
    /\ cmdOpen' = FALSE
    /\ UNCHANGED <<cmdQ, sentCmds, pc_rest, req, hdrOk, taken, httplog, results, bus, privVars, otherVars>>

\* Mutant of RestRecv: the next command is taken while the HTTP call of the
\* previous one is still pending.
RestRecv_eager ==
    /\ pc_rest \in {"Idle", "Posting"}
    /\ cmdQ # <<>>
    /\ LET m == Head(cmdQ) IN
       /\ cmdQ' = Tail(cmdQ)
       /\ taken' = Append(taken, m)
       /\ IF m.type \notin {"NewOrder", "CancelOrder"}
          THEN /\ results' = Append(results, Result(NoResp, RetIgnored, <<>>))
               /\ UNCHANGED <<pc_rest, req, httplog, bus>>
          ELSE IF ~hdrOk
          THEN LET ret == RetErr("header") IN
               /\ results' = Append(results, Result(NoResp, ret, OnResult(m, ret)))
               /\ bus' = bus \o OnResult(m, ret)
               /\ UNCHANGED <<pc_rest, req, httplog>>
          ELSE /\ httplog' = Append(httplog, RequestOf(m))
               /\ req' = m
               /\ pc_rest' = "Posting"
               /\ UNCHANGED <<results, bus>>
    /\ UNCHANGED <<cmdOpen, sentCmds, hdrOk, privVars, otherVars>>

\* rx.recv() yields Some(msg): the match arm up to the await of the HTTP
\* call.  get_headers fails before anything is sent when hdrOk is FALSE.
RestRecv ==
    /\ pc_rest = "Idle"
    /\ cmdQ # <<>>
    /\ LET m == Head(cmdQ) IN
       /\ cmdQ' = Tail(cmdQ)
       /\ taken' = Append(taken, m)
       /\ IF m.type \notin {"NewOrder", "CancelOrder"}
          THEN /\ results' = Append(results, Result(NoResp, RetIgnored, <<>>))
               /\ UNCHANGED <<pc_rest, req, httplog, bus>>
          ELSE IF ~hdrOk
          THEN LET ret == RetErr("header") IN
               /\ results' = Append(results, Result(NoResp, ret, OnResult(m, ret)))
               /\ bus' = bus \o OnResult(m, ret)
               /\ UNCHANGED <<pc_rest, req, httplog>>
          ELSE /\ httplog' = Append(httplog, RequestOf(m))
               /\ req' = m
               /\ pc_rest' = "Posting"
               /\ UNCHANGED <<results, bus>>
    /\ UNCHANGED <<cmdOpen, sentCmds, hdrOk, privVars, otherVars>>

\* The HTTP call completes with r: post returns, and the arm pushes the
\* rejection when it returned Err.
RestRespFrom(RS) ==
    /\ pc_rest = "Posting"
    /\ \E r \in RS :
         LET ret == post(r) IN
         /\ results' = Append(results, Result(r, ret, OnResult(req, ret)))
         /\ bus' = bus \o OnResult(req, ret)
         /\ pc_rest' = IF ret.kind = "Panic" THEN "Panicked" ELSE "Idle"
         /\ req' = NoReq
    /\ UNCHANGED <<cmdQ, cmdOpen, sentCmds, hdrOk, taken, httplog, privVars, otherVars>>

\* Mutant of RestClosed: the loop ends as soon as the senders are gone,
\* whatever is still queued.
RestClosed_early ==
    /\ pc_rest = "Idle"
    /\ ~cmdOpen
    /\ pc_rest' = "Returned"
    /\ UNCHANGED <<cmdQ, cmdOpen, sentCmds, req, hdrOk, taken, httplog, results, bus, privVars, otherVars>>

\* rx.recv() yields None: every sender is gone and the queue is empty.
RestClosed ==
    /\ pc_rest = "Idle"
    /\ cmdQ = <<>>
    /\ ~cmdOpen
    /\ pc_rest' = "Returned"
    /\ UNCHANGED <<cmdQ, cmdOpen, sentCmds, req, hdrOk, taken, httplog, results, bus, privVars, otherVars>>

\* ------------------------------------------------- public websocket client
\* One element of a market-data frame's "data" array.  A depth level is the
\* pair of strings [price, size, ...] the exchange sends.
Level(n) == <<ToString(100 + n), ToString(n)>>
RECURSIVE LevelsUpTo(_)
LevelsUpTo(n) == IF n = 0 THEN <<>> ELSE Append(LevelsUpTo(n - 1), Level(n))
BooksElem(id, na, nb) ==
    [k |-> "books", instId |-> id, asks |-> LevelsUpTo(na), bids |-> LevelsUpTo(nb)]
TradeElem(id, sd, px, sz) == [k |-> "trade", instId |-> id, side |-> sd, px |-> px, sz |-> sz]
TickerElem(id) == [k |-> "ticker", instId |-> id]

\* str::parse::<f64>() on the decimal strings used here.
F64Values == 0..110
ParseF64(str) ==
    IF \E n \in F64Values : ToString(n) = str
    THEN [ok |-> TRUE, v |-> CHOOSE n \in F64Values : ToString(n) = str]
    ELSE [ok |-> FALSE, v |-> 0]

\* The first five levels parse (the ones take(5) visits).
LevelsParse(src) ==
    \A i \in DOMAIN src :
        i <= 5 => ParseF64(src[i][1]).ok /\ ParseF64(src[i][2]).ok
\* [(0.0, 0.0); 5] overwritten by the first five levels of src.
Levels5(src) ==
    [i \in 1..5 |->
        IF i <= Len(src) THEN <<ParseF64(src[i][1]).v, ParseF64(src[i][2]).v>>
        ELSE <<0, 0>>]

\* Msg::Depth(Depth { inst, asks, bids, .. }) once the instrument decoded.
DepthOf(inst, asks, bids) ==
    IF inst.kind # "Ok" THEN Panic
    ELSE Yield(<<[type |-> "Depth", inst |-> inst.v, asks |-> asks, bids |-> bids]>>)

\* Mutant of deserialize_books5: the levels are not zero-filled to five.
deserialize_books5_short(v) ==
    IF v.k # "books" THEN Panic
    ELSE IF ~LevelsParse(v.asks) \/ ~LevelsParse(v.bids) THEN Panic
    ELSE DepthOf(str_to_inst(v.instId),
                 SubSeq(Levels5(v.asks), 1, Len(v.asks)),
                 SubSeq(Levels5(v.bids), 1, Len(v.bids)))

deserialize_books5(v) ==
    IF v.k # "books" THEN Panic
    ELSE IF ~LevelsParse(v.asks) \/ ~LevelsParse(v.bids) THEN Panic
    ELSE DepthOf(str_to_inst(v.instId), Levels5(v.asks), Levels5(v.bids))

\* parser::str_to_side: unreachable!() on any other string.
str_to_side(sd) == CASE sd = "buy" -> "Buy" [] sd = "sell" -> "Sell"

\* Msg::Trade(Trade { inst, side, px, sz, .. }) once the instrument decoded.
TradeOf(inst, side, px, sz) ==
    IF inst.kind # "Ok" THEN Panic
    ELSE Yield(<<[type |-> "Trade", inst |-> inst.v, side |-> side, px |-> px, sz |-> sz]>>)

deserialize_trades(v) ==
    IF v.k # "trade" THEN Panic
    ELSE IF v.side \notin {"buy", "sell"} THEN Panic
    ELSE IF ~ParseF64(v.px).ok \/ ~ParseF64(v.sz).ok THEN Panic
    ELSE TradeOf(str_to_inst(v.instId), str_to_side(v.side),
                 ParseF64(v.px).v, ParseF64(v.sz).v)

DeserializePubElem(ch, v) ==
    CASE ch = "books5" -> deserialize_books5(v)
      [] ch = "trades" -> deserialize_trades(v)

\* One turn of the for loop followed by the remaining turns: a panic in this
\* turn ends the task before anything later is sent.
ThenRest(h, r) == IF ~h.ok THEN Panic ELSE [ok |-> r.ok, out |-> h.out \o r.out]

\* `for v in data { ... tx.send(..).await.unwrap() }` of the public client.
RECURSIVE ForEachPubData(_, _)
ForEachPubData(ch, data) ==
    IF data = <<>> THEN Yield(<<>>)
    ELSE ThenRest(DeserializePubElem(ch, Head(data)), ForEachPubData(ch, Tail(data)))

\* What the loop body leaves behind after the for loop returned r.
PubOutcome(r) == Outcome(r.out, <<>>, IF r.ok THEN "none" ELSE "panic_decode")

\* The body of the public read loop for one message.
HandlePubFrame(f) ==
    IF ~f.text THEN Outcome(<<>>, <<>>, "none")
    ELSE IF WsMessageOf(f) = "Error" THEN Outcome(<<>>, <<>>, "panic_decode")
    ELSE IF WsMessageOf(f) = "Data" /\ f.arg \in {"books5", "trades"}
    THEN PubOutcome(ForEachPubData(f.arg, f.data))
    ELSE Outcome(<<>>, <<>>, "none")

\* WsClientBuilder::subscribe: the channel asked for with a data type.
ChannelOf(data_type) ==
    CASE data_type = "Depth" -> "books5"
      [] data_type = "Trade" -> "trades"
      [] data_type = "Ticker" -> "tickers"
      [] data_type = "OpenInterest" -> "open-interest"
      [] data_type = "FundingRate" -> "funding-rate"
Sub(i, d) == [inst |-> i, data_type |-> d]

\* WsCommand::Subscribe(channel): one WsChannel::Books per element of subs.
PubSubCmd(ss) ==
    [op |-> "subscribe",
     args |-> [i \in DOMAIN ss |-> [channel |-> "books5", instId |-> inst_to_str(ss[i])]]]

\* connect_async(PUBLIC_WS_URL).await.unwrap()
PubConnect ==
    /\ pc_pub = "Disconnected"
    /\ \/ /\ pc_pub' = "Connected"
          /\ UNCHANGED pub_exit
       \/ /\ pc_pub' = "Panicked"
          /\ pub_exit' = "panic_connect"
    /\ UNCHANGED <<requested, subs, pub_wire, pub_rxlog, bus, restVars, privVars, codecVars, featVars, apiVars, stgVars>>

\* ws.send(Message::Text(subscribe command)).await.unwrap()
PubSubscribe ==
    /\ pc_pub = "Connected"
    /\ \/ /\ pub_wire' = Append(pub_wire, PubSubCmd(subs))
          /\ pc_pub' = "Streaming"
          /\ UNCHANGED pub_exit
       \/ /\ pc_pub' = "Panicked"
          /\ pub_exit' = "panic_send"
          /\ UNCHANGED pub_wire
    /\ UNCHANGED <<requested, subs, pub_rxlog, bus, restVars, privVars, codecVars, featVars, apiVars, stgVars>>

\* ws.next() yields Some(Ok(msg)): one turn of the loop.
PubRecvFrom(FS, max) ==
    /\ pc_pub = "Streaming"
    /\ Len(pub_rxlog) < max
    /\ \E f \in FS :
         LET h == HandlePubFrame(f) IN
         /\ pub_rxlog' = Append(pub_rxlog, f)
         /\ bus' = bus \o h.pushed
         /\ IF h.end = "none"
            THEN UNCHANGED <<pc_pub, pub_exit>>
            ELSE pc_pub' = "Panicked" /\ pub_exit' = h.end
    /\ UNCHANGED <<requested, subs, pub_wire, restVars, privVars, codecVars, featVars, apiVars, stgVars>>

\* ws.next() yields None: the stream has ended.
PubClosed ==
    /\ pc_pub = "Streaming"
    /\ pc_pub' = "Returned"
    /\ pub_exit' = "closed"
    /\ UNCHANGED <<requested, subs, pub_wire, pub_rxlog, bus, restVars, privVars, codecVars, featVars, apiVars, stgVars>>

\* ws.next() yields Some(Err(_)): msg.unwrap() panics.
PubTransportError ==
    /\ pc_pub = "Streaming"
    /\ pc_pub' = "Panicked"
    /\ pub_exit' = "panic_transport"
    /\ UNCHANGED <<requested, subs, pub_wire, pub_rxlog, bus, restVars, privVars, codecVars, featVars, apiVars, stgVars>>

\* ------------------------------------------------------- specifications
\* The connector before anything has run.
OrderPathInit ==
    /\ cmdQ = <<>>
    /\ cmdOpen = TRUE
    /\ sentCmds = <<>>
    /\ bus = <<>>
    /\ pc_rest = "Idle"
    /\ req = NoReq
    /\ hdrOk \in BOOLEAN
    /\ taken = <<>>
    /\ httplog = <<>>
    /\ results = <<>>
    /\ pc_priv = "Disconnected"
    /\ priv_exit = "none"
    /\ wire = <<>>
    /\ rxlog = <<>>

\* The public client not started, with no instrument configured.
PubIdle ==
    /\ pc_pub = "Disconnected"
    /\ pub_exit = "none"
    /\ requested = <<>>
    /\ subs = <<>>
    /\ pub_wire = <<>>
    /\ pub_rxlog = <<>>

\* FeatureCenter::new(lib): no feature registered.
FeatIdle ==
    /\ features = <<>>
    /\ id_map = <<>>
    /\ added = <<>>

\* No conversion under way.
CodecIdle ==
    /\ codec = "none"
    /\ dir = "none"
    /\ x_inst = NoInst
    /\ x_str = <<>>
    /\ x_back = NoResult
    /\ x_str2 = <<>>
    /\ cpc = "start"
    /\ x_tuple = <<>>
    /\ x_from = NoResult

\* A builder holding a complete credential, nothing built or started.
NoApi == [built |-> FALSE, private_client |-> FALSE]
Credential(a, k, p) == [apikey |-> a, secretkey |-> k, passphrase |-> p]
ApiIdle ==
    /\ creds = Credential("key", "secret", "pass")
    /\ api = NoApi
    /\ launched = {}
    /\ sub_log = <<>>

\* The two tasks that hold a clone of the event sender.
Producers == {"public", "private"}
\* No strategy is being driven.
StgIdle ==
    /\ evQ = <<>>
    /\ evOpen = TRUE
    /\ got = <<>>
    /\ calls = <<>>
    /\ reply = [type |-> "None"]
    /\ s_pc = "NotStarted"
    /\ p_pc = [p \in Producers |-> "Running"]
    /\ p_kind = [p \in Producers |-> IF p = "public" THEN "Depth" ELSE "ExecutionReport"]

Init == OrderPathInit /\ PubIdle /\ CodecIdle /\ ApiIdle /\ StgIdle /\ FeatIdle

\* The connector as a whole: the gateway and the private client side by side.
SendCmd == SendCmdFrom(SysCmds, SysMaxCmds)
RestResp == RestRespFrom(SysResponses)
PrivRecv == PrivRecvFrom(SysFrames, SysMaxFrames)

Next ==
    \/ SendCmd
    \/ DropSender
    \/ RestRecv
    \/ RestResp
    \/ RestClosed
    \/ PrivConnect
    \/ PrivLogin
    \/ PrivRecv
    \/ PrivClosed
    \/ PrivTransportError

Spec == Init /\ [][Next]_vars

\* The gateway alone, over every command and response shape.
RestSendCmd == SendCmdFrom(Cmds, MaxCmds)
RestRespAny == RestRespFrom(Responses)

NextRest ==
    \/ RestSendCmd
    \/ DropSender
    \/ RestRecv
    \/ RestRespAny
    \/ RestClosed

SpecRest == Init /\ [][NextRest]_vars

\* The private client alone, over every frame shape.
PrivRecvAny == PrivRecvFrom(Frames, MaxFrames)

NextPriv ==
    \/ PrivConnect
    \/ PrivLogin
    \/ PrivRecvAny
    \/ PrivClosed
    \/ PrivTransportError

SpecPriv == Init /\ [][NextPriv]_vars

\* The two instrument codecs, each run both ways over bounded inputs: an
\* instrument encoded and decoded back, a string decoded and encoded back.
CodecCcys == {"Unknown", "BTC", "USDT"}
InstTypes ==
    {Spot, Margin, Swap}
    \cup {Futures(d) : d \in Dates}
    \cup {Options(d, k, t) : d \in Dates, k \in Strikes, t \in OptTypes}
Insts ==
    [exch : ExchNames, base_ccy : CodecCcys, quote_ccy : CodecCcys, inst_type : InstTypes]

\* Strings the exchange or a caller may hand to the decoders, beside the
\* encodings of Insts: short, long, misspelt and loosely written ones.
OddWireStrings ==
    {<<>>, <<"BTC">>, <<"btc", "-", "usdt">>, <<"FOO", "-", "USDT">>,
     <<"BTC", "-", "USDT", "-", "swap">>,
     <<"BTC", "-", "USDT", "-", "231345">>,
     <<"BTC", "-", "USDT", "-", "230421", "-", "10000">>,
     <<"BTC", "-", "USDT", "-", "230421", "-", "1e4", "-", "C">>,
     <<"BTC", "-", "USDT", "-", "230421", "-", "10000", "-", "X">>,
     <<"BTC", "-", "USDT", "-", "230421", "-", "+25", "-", "C">>,
     <<"BTC", "-", "USDT", "-", "230421", "-", "025", "-", "P">>,
     <<"BTC", "-", "USDT", "-", "bad", "-", "10000", "-", "C">>,
     <<"BTC", "-", "USDT", "-", "230421", "-", "10000", "-", "C", "-", "x">>}
OddCanonStrings ==
    {<<>>, <<"Okx", ".", "BTC", ".", "USDT">>,
     <<"Kraken", ".", "BTC", ".", "USDT", ".", "Spot">>,
     <<"Okx", ".", "FOO", ".", "USDT", ".", "Spot">>,
     <<"Okx", ".", "BTC", ".", "FOO", ".", "Spot">>,
     <<"Okx", ".", "BTC", ".", "USDT", ".", "Forward">>,
     <<"Okx", ".", "BTC", ".", "USDT", ".", "Futures">>,
     <<"Okx", ".", "BTC", ".", "USDT", ".", "Futures", "-", "231345">>,
     <<"Okx", ".", "BTC", ".", "USDT", ".", "Options", "-", "230421">>,
     <<"Okx", ".", "BTC", ".", "USDT", ".", "Options", "-", "230421", "-", "25">>,
     <<"Okx", ".", "BTC", ".", "USDT", ".", "Options", "-", "230421", "-", "25", "-", "X">>,
     <<"Okx", ".", "BTC", ".", "USDT", ".", "Options", "-", "230421", "-", "+25", "-", "C">>,
     <<"Okx", ".", "BTC", ".", "USDT", ".", "Spot", "-", "x">>,
     <<"Okx", ".", "BTC", ".", "USDT", ".", "Futures", "-", "230421", "-", "x">>,
     <<"Okx", ".", "BTC", ".", "USDT", ".", "Spot", ".", "x">>,
     <<".", ".", ".">>, <<"Okx", ".", ".", "USDT", ".", "Spot">>,
     <<"Kraken", ".", "FOO", ".", "BAR", ".", "Forward">>,
     <<"Okx", ".", "FOO", ".", "BAR", ".", "Forward">>,
     <<"Okx", ".", "BTC", ".", "BAR", ".", "Futures", "-", "231345">>,
     <<"Kraken", ".", "BTC", ".", "USDT", ".", "Forward">>}

Encode(c, inst) == IF c = "wire" THEN inst_to_str(inst) ELSE InstToString(inst)
Decode(c, s) == IF c = "wire" THEN str_to_inst(s) ELSE InstTryFrom(s)
InputStrings(c) ==
    {Encode(c, i) : i \in Insts}
    \cup (IF c = "wire" THEN OddWireStrings ELSE OddCanonStrings)

InitCodec ==
    /\ OrderPathInit /\ hdrOk
    /\ PubIdle
    /\ ApiIdle
    /\ StgIdle
    /\ codec \in {"wire", "canon"}
    /\ dir \in {"inst", "str"}
    /\ x_inst \in IF dir = "inst" THEN Insts ELSE {NoInst}
    /\ x_str \in IF dir = "str" THEN InputStrings(codec) ELSE {<<>>}
    /\ x_back = NoResult
    /\ x_str2 = <<>>
    /\ cpc = "start"
    /\ x_tuple = <<>>
    /\ x_from = NoResult
    /\ FeatIdle

connVars ==
    <<cmdQ, cmdOpen, sentCmds, bus, pc_rest, req, hdrOk, taken, httplog,
      results, pc_priv, priv_exit, wire, rxlog, pubVars, apiVars, stgVars,
      featVars>>

AfterDecode(r, okpc) ==
    CASE r.kind = "Ok" -> okpc [] r.kind = "Err" -> "failed" [] OTHER -> "panicked"

\* inst_to_str(&inst) / inst.to_string()
EncodeInst ==
    /\ cpc = "start" /\ dir = "inst"
    /\ x_str' = Encode(codec, x_inst)
    /\ cpc' = "encoded"
    /\ UNCHANGED <<codec, dir, x_inst, x_back, x_str2, x_tuple, x_from, connVars>>

\* str_to_inst / Inst::try_from of that encoding
DecodeBack ==
    /\ cpc = "encoded"
    /\ x_back' = Decode(codec, x_str)
    /\ cpc' = AfterDecode(x_back', "done")
    /\ UNCHANGED <<codec, dir, x_inst, x_str, x_str2, x_tuple, x_from, connVars>>

\* str_to_inst(s) / Inst::try_from(s)
DecodeStr ==
    /\ cpc = "start" /\ dir = "str"
    /\ x_back' = Decode(codec, x_str)
    /\ cpc' = AfterDecode(x_back', "decoded")
    /\ UNCHANGED <<codec, dir, x_inst, x_str, x_str2, x_tuple, x_from, connVars>>

\* inst_to_str / to_string of the decoded instrument
EncodeBack ==
    /\ cpc = "decoded"
    /\ x_str2' = Encode(codec, x_back.v)
    /\ cpc' = "done"
    /\ UNCHANGED <<codec, dir, x_inst, x_str, x_back, x_tuple, x_from, connVars>>

NextCodec ==
    \/ EncodeInst
    \/ DecodeBack
    \/ DecodeStr
    \/ EncodeBack

SpecCodec == InitCodec /\ [][NextCodec]_vars

\* The two ways of building an Inst, from four strings and from the dotted
\* string made of them, over valid, misspelt, empty and dotted parts.
Dotted(t) == t[1] \o <<".">> \o t[2] \o <<".">> \o t[3] \o <<".">> \o t[4]
ExchParts == {<<"Okx">>, <<"BinanceFutures">>, <<"okx">>, <<>>, <<"Okx", ".", "BTC">>}
CcyParts == {<<"BTC">>, <<"USDT">>, <<"FOO">>, <<>>}
TypeParts ==
    {<<"Spot">>, <<"Swap">>, <<"Futures", "-", "230421">>,
     <<"Options", "-", "230421", "-", "10000", "-", "C">>,
     <<"spot">>, <<"Futures">>, <<"Spot", ".", "x">>, <<>>}

InitTuple ==
    /\ OrderPathInit /\ hdrOk
    /\ PubIdle
    /\ ApiIdle
    /\ StgIdle
    /\ codec = "tuple"
    /\ dir = "none"
    /\ x_inst = NoInst
    /\ x_tuple \in {<<e, b, q, t>> : e \in ExchParts, b \in CcyParts, q \in CcyParts,
                                    t \in TypeParts}
    /\ x_str = Dotted(x_tuple)
    /\ x_from = NoResult
    /\ x_back = NoResult
    /\ x_str2 = <<>>
    /\ cpc = "start"
    /\ FeatIdle

\* Inst::try_from((exch, base_ccy, quote_ccy, inst_type))
BuildFromTuple ==
    /\ codec = "tuple" /\ x_from = NoResult
    /\ x_from' = InstTryFromTuple(x_tuple[1], x_tuple[2], x_tuple[3], x_tuple[4])
    /\ cpc' = IF x_back # NoResult THEN "done" ELSE cpc
    /\ UNCHANGED <<codec, dir, x_inst, x_str, x_back, x_str2, x_tuple, connVars>>

\* Inst::try_from("exch.base_ccy.quote_ccy.inst_type")
BuildFromStr ==
    /\ codec = "tuple" /\ x_back = NoResult
    /\ x_back' = InstTryFrom(x_str)
    /\ cpc' = IF x_from # NoResult THEN "done" ELSE cpc
    /\ UNCHANGED <<codec, dir, x_inst, x_str, x_str2, x_tuple, x_from, connVars>>

NextTuple ==
    \/ BuildFromTuple
    \/ BuildFromStr

SpecTuple == InitTuple /\ [][NextTuple]_vars

\* The public client alone, over configurations and market-data frames.
MaxPubFrames == 2
Requests ==
    {<<>>, <<Sub(BtcUsdtSpot, "Depth")>>, <<Sub(BtcUsdtSpot, "Trade")>>,
     <<Sub(BtcUsdtSpot, "Depth"), Sub(EthUsdSwap, "Depth")>>,
     <<Sub(EthUsdSwap, "Depth"), Sub(EthUsdSwap, "Ticker")>>}
BtcUsdt == <<"BTC", "-", "USDT">>
\* Five levels that parse followed by a sixth that does not.
SixthBad == Append(LevelsUpTo(5), <<"x", "y">>)
PubFrames ==
    {DataFrame("books5", <<BooksElem(BtcUsdt, na, nb)>>) :
        na \in {0, 3, 5, 6}, nb \in {2, 5}}
    \cup {DataFrame("books5", <<BooksElem(BtcUsdt, 1, 1), BooksElem(BtcUsdt, 2, 6)>>),
          DataFrame("books5", <<BooksElem(<<"BTC">>, 1, 1)>>),
          DataFrame("books5", <<[k |-> "books", instId |-> BtcUsdt,
                                 asks |-> SixthBad, bids |-> LevelsUpTo(1)]>>),
          DataFrame("books5", <<MalformedElem>>),
          DataFrame("trades", <<TradeElem(BtcUsdt, "buy", "101", "2"),
                                TradeElem(BtcUsdt, "sell", "102", "1")>>),
          DataFrame("trades", <<TradeElem(BtcUsdt, "buy", "abc", "2")>>),
          DataFrame("tickers", <<TickerElem(BtcUsdt)>>),
          DataFrame("funding-rate", <<TickerElem(BtcUsdt)>>),
          SubscribeFrame("books5"), LoginFrame("60012"),
          NullFrame, GarbageFrame, BinaryFrame}

InitPub ==
    /\ OrderPathInit /\ hdrOk
    /\ CodecIdle
    /\ ApiIdle
    /\ StgIdle
    /\ pc_pub = "Disconnected"
    /\ pub_exit = "none"
    /\ requested \in Requests
    /\ subs = [i \in DOMAIN requested |-> requested[i].inst]
    /\ pub_wire = <<>>
    /\ pub_rxlog = <<>>
    /\ FeatIdle

PubRecv == PubRecvFrom(PubFrames, MaxPubFrames)

NextPub ==
    \/ PubConnect
    \/ PubSubscribe
    \/ PubRecv
    \/ PubClosed
    \/ PubTransportError

SpecPub == InitPub /\ [][NextPub]_vars

\* ------------------------------------------------- builder and connector
\* WsClientBuilder::build: a private client only when no part of the
\* credential is empty.  Mutant: the api key alone decides.
build_apikey_only(c) == [built |-> TRUE, private_client |-> c.apikey # ""]
build(c) ==
    [built |-> TRUE,
     private_client |-> ~(c.apikey = "" \/ c.secretkey = "" \/ c.passphrase = "")]

\* OkxApi::start: the private client is spawned when there is one, then the
\* public client is started.
start(a) == IF a.private_client THEN {"private", "public"} ELSE {"public"}

Build ==
    /\ ~api.built
    /\ api' = build(creds)
    /\ UNCHANGED <<creds, launched, sub_log, bus, restVars, privVars, pubVars, codecVars, featVars, stgVars>>

Start ==
    /\ api.built
    /\ launched = {}
    /\ launched' = start(api)
    /\ UNCHANGED <<creds, api, sub_log, bus, restVars, privVars, pubVars, codecVars, featVars, stgVars>>

\* The connector from builder to running clients, over every credential.
MaxApiFrames == 2
CredParts == {"", "x"}
ApiPrivFrames ==
    {LoginFrame("0"), LoginFrame("60009"),
     DataFrame("orders", <<OrderElem(7, 41, "live")>>)}
ApiPubFrames ==
    {DataFrame("books5", <<BooksElem(BtcUsdt, 1, 1)>>), SubscribeFrame("books5")}

InitApi ==
    /\ OrderPathInit /\ hdrOk
    /\ CodecIdle
    /\ StgIdle
    /\ pc_pub = "Disconnected"
    /\ pub_exit = "none"
    /\ requested = <<Sub(BtcUsdtSpot, "Depth")>>
    /\ subs = <<BtcUsdtSpot>>
    /\ pub_wire = <<>>
    /\ pub_rxlog = <<>>
    /\ creds \in {Credential(a, k, p) : a \in CredParts, k \in CredParts, p \in CredParts}
    /\ api = NoApi
    /\ launched = {}
    /\ sub_log = <<>>
    /\ FeatIdle

ApiPrivConnect == "private" \in launched /\ PrivConnect
ApiPrivLogin == "private" \in launched /\ PrivLogin
ApiPrivRecv == "private" \in launched /\ PrivRecvFrom(ApiPrivFrames, MaxApiFrames)
ApiPrivClosed == "private" \in launched /\ PrivClosed
ApiPrivTransportError == "private" \in launched /\ PrivTransportError
ApiPubConnect == "public" \in launched /\ PubConnect
ApiPubSubscribe == "public" \in launched /\ PubSubscribe
ApiPubRecv == "public" \in launched /\ PubRecvFrom(ApiPubFrames, MaxApiFrames)
ApiPubClosed == "public" \in launched /\ PubClosed
ApiPubTransportError == "public" \in launched /\ PubTransportError

NextApi ==
    \/ Build
    \/ Start
    \/ ApiPrivConnect
    \/ ApiPrivLogin
    \/ ApiPrivRecv
    \/ ApiPrivClosed
    \/ ApiPrivTransportError
    \/ ApiPubConnect
    \/ ApiPubSubscribe
    \/ ApiPubRecv
    \/ ApiPubClosed
    \/ ApiPubTransportError

SpecApi == InitApi /\ [][NextApi]_vars

\* --------------------------------------------------- subscribe commands
\* strum's EnumString on DataType: the name of a variant and nothing else.
DataTypeNames == {"Ticker", "FundingRate", "OpenInterest", "Depth", "Trade"}
DataTypeTryFrom(s) == IF s \in DataTypeNames THEN Ok(s) ELSE Err("VariantNotFound")

\* WsClientBuilder::subscribe: one WsChannelArg pushed per pair whose two
\* halves both convert, in the order of the pairs; other pairs are skipped.
WsChannelArg(inst, data_type) ==
    [channel |-> ChannelOf(data_type), instId |-> inst_to_str(inst)]
PushIfOk(channels, i, d) ==
    IF i.kind = "Ok" /\ d.kind = "Ok"
    THEN Append(channels, WsChannelArg(i.v, d.v))
    ELSE channels
RECURSIVE subscribe(_, _)
subscribe(channels, ss) ==
    IF ss = <<>> THEN channels
    ELSE subscribe(PushIfOk(channels, InstTryFrom(Head(ss)[1]),
                            DataTypeTryFrom(Head(ss)[2])),
                   Tail(ss))

\* parser::inst_type_to_str, called by PrivateWsClient::run and defined
\* nowhere in parser.rs: the exchange's name of the instrument type's family.
inst_type_to_str(t) ==
    CASE t.k = "Spot" -> "SPOT"
      [] t.k = "Margin" -> "MARGIN"
      [] t.k = "Swap" -> "SWAP"
      [] t.k = "Futures" -> "FUTURES"
      [] t.k = "Options" -> "OPTION"

\* PrivateWsClient::run: inst_types, the HashSet collected from subs.
InstTypeSet(ss) == {inst_type_to_str(ss[i].inst_type) : i \in DOMAIN ss}

\* The orders in which HashSet::iter may yield the elements of a set.  The
\* hasher is keyed by RandomState::new(), whose keys differ from one set to
\* the next and from one process to the next: every order can come out.
IterOrders(S) ==
    {q \in [1..Cardinality(S) -> S] :
        \A i, j \in 1..Cardinality(S) : i # j => q[i] # q[j]}

\* PrivateWsClient::run: channels, from one iteration order it of inst_types
\* (the set is iterated twice, unchanged in between: the same order twice).
\* Mutant: the balance_and_position topic is not pushed.
PrivChannels_nobalance(it) ==
    [i \in 1..Len(it) |-> [channel |-> "positions", instType |-> it[i]]]
    \o [i \in 1..Len(it) |-> [channel |-> "orders", instType |-> it[i]]]
PrivChannels(it) ==
    [i \in 1..Len(it) |-> [channel |-> "positions", instType |-> it[i]]]
    \o [i \in 1..Len(it) |-> [channel |-> "orders", instType |-> it[i]]]
    \o <<[channel |-> "balance_and_position"]>>
PrivSubCmd(it) == [op |-> "subscribe", args |-> PrivChannels(it)]

Built(by, list, cmd) == [by |-> by, list |-> list, cmd |-> cmd]

\* The three constructions, each over lists of instruments or of pairs and
\* each carried out more than once.
MaxBuilds == 2
Fut(d) == Inst("BTC", "USD", Futures(d))
PrivLists ==
    {<<>>, <<BtcUsdtSpot>>, <<BtcUsdtSpot, BtcUsdtSpot>>,
     <<BtcUsdtSpot, EthUsdSwap>>, <<EthUsdSwap, BtcUsdtSpot>>,
     <<Fut(Date(2023, 4, 21)), Fut(Date(2068, 12, 31))>>,
     <<Inst("BTC", "USDT", Margin), EthUsdSwap, Inst("BTC", "USDT", Swap)>>}
PubLists ==
    {<<>>, <<BtcUsdtSpot>>, <<BtcUsdtSpot, BtcUsdtSpot>>,
     <<BtcUsdtSpot, EthUsdSwap>>, <<EthUsdSwap, BtcUsdtSpot>>}
PairLists ==
    {<<>>,
     <<<<InstToString(BtcUsdtSpot), "Depth">>>>,
     <<<<InstToString(BtcUsdtSpot), "Depth">>, <<InstToString(EthUsdSwap), "Trade">>>>,
     <<<<InstToString(EthUsdSwap), "Trade">>, <<InstToString(BtcUsdtSpot), "Depth">>>>,
     <<<<InstToString(BtcUsdtSpot), "depth">>, <<InstToString(EthUsdSwap), "Ticker">>>>,
     <<<<<<"Okx", ".", "BTC">>, "Depth">>, <<InstToString(BtcUsdtSpot), "FundingRate">>>>}

SubUnchanged ==
    UNCHANGED <<creds, api, launched, bus, restVars, privVars, pubVars, codecVars, featVars, stgVars>>

BuilderSubscribe ==
    /\ Len(sub_log) < MaxBuilds
    /\ \E l \in PairLists :
         sub_log' = Append(sub_log, Built("builder", l, subscribe(<<>>, l)))
    /\ SubUnchanged

PubBuildSub ==
    /\ Len(sub_log) < MaxBuilds
    /\ \E l \in PubLists :
         sub_log' = Append(sub_log, Built("public", l, PubSubCmd(l)))
    /\ SubUnchanged

PrivBuildSub ==
    /\ Len(sub_log) < MaxBuilds
    /\ \E l \in PrivLists : \E it \in IterOrders(InstTypeSet(l)) :
         sub_log' = Append(sub_log, Built("private", l, PrivSubCmd(it)))
    /\ SubUnchanged

NextSub ==
    \/ BuilderSubscribe
    \/ PubBuildSub
    \/ PrivBuildSub

SpecSub == Init /\ [][NextSub]_vars

\* ----------------------------------------------- channels and driving loop
\* new_channel(buffer): the capacity of a channel, 1024 in run_stg_async.
Buffer == 2
MaxEvents == 3

\* tokio's bounded Sender::send: the message is queued once the channel has
\* a free slot.  Mutant: a slot is always free.
HasCapacity_always(q) == TRUE
HasCapacity(q) == Len(q) < Buffer

\* The messages a task sends on its clone of the event sender, and the
\* variants a market-data task and an account task may carry.
Event(t, p) == [type |-> t, from |-> p]
EventTypes(p) ==
    IF p = "public"
    THEN {"Depth", "Trade", "Ticker", "FundingRate", "OpenInterest"}
    ELSE {"ExecutionReport", "CancelReject", "BalanceReport", "PositionReport"}

\* The gateway holds a clone of the event sender and the command receiver
\* for as long as RestClient::run runs ("Pushing": in tx.send of a rejection).
GatewayAlive == pc_rest \in {"Idle", "Posting", "Pushing"}

\* tx.send(msg).await.unwrap() in a client task: the message is queued when
\* the channel has room, the task waits while it is full, and unwrap panics
\* when the receiver is gone.
ProdSendUpTo(p, max) ==
    /\ p_pc[p] = "Running"
    /\ IF evOpen
       THEN /\ Len(bus) < max
            /\ HasCapacity(evQ)
            /\ evQ' = Append(evQ, Event(p_kind[p], p))
            /\ bus' = Append(bus, Event(p_kind[p], p))
            /\ UNCHANGED p_pc
       ELSE /\ p_pc' = [p_pc EXCEPT ![p] = "Panicked"]
            /\ UNCHANGED <<evQ, bus>>
    /\ UNCHANGED <<p_kind, evOpen, got, calls, reply, s_pc, restVars, privVars, pubVars,
                   codecVars, featVars, apiVars>>

ProdSend(p) == ProdSendUpTo(p, MaxEvents)

\* The task's stream ends: run returns and its sender is dropped.
ProdEnd(p) ==
    /\ p_pc[p] = "Running"
    /\ p_pc' = [p_pc EXCEPT ![p] = "Returned"]
    /\ UNCHANGED <<p_kind, evQ, evOpen, got, calls, reply, s_pc, bus, restVars,
                   privVars, pubVars, codecVars, featVars, apiVars>>

\* The match of run_stg_async: the callback a message is handed to ("none":
\* the `_ => ()` arm).
CallbackOf(t) ==
    CASE t = "Depth" -> "on_depth"
      [] t = "Trade" -> "on_trade"
      [] t = "ExecutionReport" -> "on_execution_report"
      [] t = "CancelReject" -> "on_cancel_reject"
      [] t = "BalanceReport" -> "on_balance_report"
      [] t = "PositionReport" -> "on_position_report"
      [] OTHER -> "none"

\* What a Strategy callback may return: None or Some(msg).
Replies == {NoReq, NewOrder(BtcUsdtSpot, 41, "Buy", "Limit", "Cash", 100, 1)}
Call(cb, m, r) == [cb |-> cb, msg |-> m, ret |-> r]

\* api.start(a_tx, a_rx).await has returned: the loop begins.  OkxApi::start
\* spawns the private client and awaits the public client's own run, so it
\* returns when the public client's stream has ended (a panic of the awaited
\* run unwinds through run_stg_async, whose loop then never begins).
StgStart ==
    /\ s_pc = "NotStarted"
    /\ p_pc["public"] = "Returned"
    /\ s_pc' = "Recv"
    /\ UNCHANGED <<p_kind, evQ, evOpen, got, calls, reply, p_pc, bus, restVars,
                   privVars, pubVars, codecVars, featVars, apiVars>>

\* s_rx.recv() yields Some(m): the arm of m's variant calls the callback.
StgRecv ==
    /\ s_pc = "Recv"
    /\ evQ # <<>>
    /\ LET m == Head(evQ)
           cb == CallbackOf(m.type)
       IN /\ evQ' = Tail(evQ)
          /\ got' = Append(got, m)
          /\ IF cb = "none"
             THEN UNCHANGED <<calls, reply, s_pc>>
             ELSE \E r \in Replies :
                    /\ calls' = Append(calls, Call(cb, m, r))
                    /\ reply' = r
                    /\ s_pc' = IF r = NoReq THEN "Recv" ELSE "Reply"
    /\ UNCHANGED <<p_kind, evOpen, p_pc, bus, restVars, privVars, pubVars, codecVars, featVars,
                   apiVars>>

\* s_tx.send(msg).await?: queued when the command channel has room; an
\* Err, which ends run_stg_async, when the command receiver is gone.
StgReply ==
    /\ s_pc = "Reply"
    /\ IF GatewayAlive
       THEN /\ HasCapacity(cmdQ)
            /\ cmdQ' = Append(cmdQ, reply)
            /\ sentCmds' = Append(sentCmds, reply)
            /\ reply' = NoReq
            /\ s_pc' = "Recv"
            /\ UNCHANGED <<cmdOpen, evOpen>>
       ELSE /\ s_pc' = "Err"
            /\ cmdOpen' = FALSE
            /\ evOpen' = FALSE
            /\ UNCHANGED <<cmdQ, sentCmds, reply>>
    /\ UNCHANGED <<p_kind, evQ, got, calls, p_pc, bus, pc_rest, req, hdrOk, taken, httplog,
                   results, privVars, pubVars, codecVars, featVars, apiVars>>

\* s_rx.recv() yields None: the channel is empty and every sender is gone.
StgClosed ==
    /\ s_pc = "Recv"
    /\ evQ = <<>>
    /\ \A p \in Producers : p_pc[p] # "Running"
    /\ ~GatewayAlive
    /\ s_pc' = "Ok"
    /\ cmdOpen' = FALSE
    /\ evOpen' = FALSE
    /\ UNCHANGED <<p_kind, evQ, got, calls, reply, p_pc, bus, cmdQ, sentCmds, pc_rest, req,
                   hdrOk, taken, httplog, results, privVars, pubVars, codecVars, featVars,
                   apiVars>>

\* run_stg_async with two producing tasks and the gateway on the command
\* side, whose HTTP calls succeed or come back unreadable.
StgResponses ==
    {Resp("ok", TRUE, "0", "", <<Entry("0", "")>>),
     Resp("ok", FALSE, "none", "none", <<>>)}

InitStg ==
    /\ OrderPathInit /\ hdrOk
    /\ PubIdle
    /\ CodecIdle
    /\ ApiIdle
    /\ evQ = <<>>
    /\ evOpen = TRUE
    /\ got = <<>>
    /\ calls = <<>>
    /\ reply = NoReq
    /\ s_pc = "NotStarted"
    /\ p_pc = [p \in Producers |-> "Running"]
    /\ p_kind \in {k \in [Producers -> EventTypes("public") \cup EventTypes("private")] :
                      \A p \in Producers : k[p] \in EventTypes(p)}
    /\ FeatIdle

StgProdSend == \E p \in Producers : ProdSend(p)
StgProdEnd == \E p \in Producers : ProdEnd(p)
StgRestResp == RestRespFrom(StgResponses)

NextStg ==
    \/ StgProdSend
    \/ StgProdEnd
    \/ StgStart
    \/ StgRecv
    \/ StgReply
    \/ StgClosed
    \/ RestRecv
    \/ StgRestResp

SpecStg == InitStg /\ [][NextStg]_vars

\* The tokio runtime polls every task that can make progress: the driving
\* loop and the gateway are not starved.  Nothing obliges a client's stream
\* to deliver a further frame or to end.
FairStg ==
    /\ SpecStg
    /\ WF_vars(StgStart)
    /\ WF_vars(StgRecv)
    /\ WF_vars(StgReply)
    /\ WF_vars(StgClosed)
    /\ WF_vars(RestRecv)
    /\ WF_vars(StgRestResp)

\* The driving loop and the gateway on both channels, the gateway's HTTP
\* calls succeeding or failing.  A failed call is followed by the push of the
\* rejection, which waits while the event channel is full.
MaxLockEvents == 6
LockResponses ==
    {Resp("ok", TRUE, "0", "", <<Entry("0", "")>>),
     Resp("ok", TRUE, "1", "m1", <<>>)}

\* self.send_order(&req).await / self.cancel_order(&req).await returns.
GwResp ==
    /\ pc_rest = "Posting"
    /\ \E r \in LockResponses :
         /\ results' = Append(results, Result(r, post(r), OnResult(req, post(r))))
         /\ IF OnResult(req, post(r)) = <<>>
            THEN pc_rest' = "Idle" /\ req' = NoReq
            ELSE pc_rest' = "Pushing" /\ UNCHANGED req
    /\ UNCHANGED <<cmdQ, cmdOpen, sentCmds, hdrOk, taken, httplog, bus, privVars,
                   otherVars>>

\* tx.send(Msg::ExecutionReport(er)).await.unwrap() / tx.send(Msg::CancelReject(cj))
GwPush ==
    /\ pc_rest = "Pushing"
    /\ IF evOpen
       THEN /\ HasCapacity(evQ)
            /\ evQ' = Append(evQ, RejectionOf(req))
            /\ bus' = Append(bus, RejectionOf(req))
            /\ pc_rest' = "Idle"
       ELSE /\ pc_rest' = "Panicked"
            /\ UNCHANGED <<evQ, bus>>
    /\ req' = NoReq
    /\ UNCHANGED <<p_kind, evOpen, got, calls, reply, s_pc, p_pc, cmdQ, cmdOpen, sentCmds,
                   hdrOk, taken, httplog, results, privVars, pubVars, codecVars, featVars, apiVars>>

\* The events come from the private client: the loop runs once the public
\* client has returned.
LockProdSend == ProdSendUpTo("private", MaxLockEvents)
\* Every event may be answered by a command and every failed command by a
\* further event: the number of events the loop takes is capped.
MaxLockRecv == 4
LockRecv == Len(got) < MaxLockRecv /\ StgRecv
InitLock == OrderPathInit /\ hdrOk /\ PubIdle /\ CodecIdle /\ ApiIdle /\ StgIdle /\ FeatIdle

NextLock ==
    \/ LockProdSend
    \/ StgProdEnd
    \/ StgStart
    \/ LockRecv
    \/ StgReply
    \/ RestRecv
    \/ GwResp
    \/ GwPush

SpecLock == InitLock /\ [][NextLock]_vars

\* Each end of the two channels against any other end: the gateway with
\* senders that may be dropped at any time, the producing tasks with a
\* receiver that may be dropped at any time.
RecvEvent ==
    /\ evOpen
    /\ evQ # <<>>
    /\ evQ' = Tail(evQ)
    /\ got' = Append(got, Head(evQ))
    /\ UNCHANGED <<p_kind, evOpen, calls, reply, s_pc, p_pc, bus, restVars, privVars,
                   pubVars, codecVars, featVars, apiVars>>

DropReceiver ==
    /\ evOpen
    /\ evOpen' = FALSE
    /\ UNCHANGED <<p_kind, evQ, got, calls, reply, s_pc, p_pc, bus, restVars, privVars,
                   pubVars, codecVars, featVars, apiVars>>

ChanSendCmd == SendCmdFrom(SysCmds, MaxCmds)
ChanRestResp == RestRespFrom(StgResponses)
ChanProdSend == \E p \in Producers : ProdSend(p)
ChanProdEnd == \E p \in Producers : ProdEnd(p)

NextChan ==
    \/ ChanSendCmd
    \/ DropSender
    \/ RestRecv
    \/ ChanRestResp
    \/ RestClosed
    \/ ChanProdSend
    \/ ChanProdEnd
    \/ RecvEvent
    \/ DropReceiver

InitChan == OrderPathInit /\ hdrOk /\ PubIdle /\ CodecIdle /\ ApiIdle /\ StgIdle /\ FeatIdle

SpecChan == InitChan /\ [][NextChan]_vars

\* The signed paths: the REST gateway, made by RestClient::new from the
\* credential as it is, and the private client of the connector build made,
\* up to its login.
InitSign == InitApi
NextSign ==
    \/ Build
    \/ Start
    \/ ApiPrivConnect
    \/ ApiPrivLogin
    \/ ChanSendCmd
    \/ RestRecv
    \/ ChanRestResp

SpecSign == InitSign /\ [][NextSign]_vars

\* ------------------------------------------------------- feature center
\* Option<Box<dyn Feature>>
NoFeature == [some |-> FALSE]
SomeFeature(f) == [some |-> TRUE, f |-> f]
MidPx(inst) == [kind |-> "MidPx", inst |-> inst, halflife |-> 0]
EmaPx(inst, halflife) == [kind |-> "EmaPx", inst |-> inst, halflife |-> halflife]

\* examples/features.rs: MyFeatureLib::create_feature.  The name is split on
\* "_": the feature's kind, the instrument, and for EmaPx the half-life.
create_feature(name) ==
    LET parts == Split(name, "_")
        fname == parts[1]
        inst == InstTryFrom(parts[2])
        halflife == ParseInt(parts[3])
    IN IF Len(parts) < 2 THEN NoFeature
       ELSE IF inst.kind # "Ok" THEN NoFeature
       ELSE CASE fname = <<"MidPx">> -> SomeFeature(MidPx(inst.v))
              [] fname = <<"EmaPx">> ->
                   IF Len(parts) < 3 THEN NoFeature
                   ELSE IF ~halflife.ok THEN NoFeature
                   ELSE SomeFeature(EmaPx(inst.v, halflife.v))
              [] OTHER -> NoFeature

FeatureCenter(fs, m) == [features |-> fs, id_map |-> m]
\* HashMap::insert(name, index)
Insert(m, name, index) ==
    [n \in DOMAIN m \cup {name} |-> IF n = name THEN index ELSE m[n]]

\* Mutant of add_feature: the name is not looked up in id_map first.
add_feature_nolookup(self, name) ==
    IF create_feature(name).some
    THEN FeatureCenter(Append(self.features, create_feature(name).f),
                       Insert(self.id_map, name, Len(Append(self.features, 0)) - 1))
    ELSE self

\* quant/mod.rs: FeatureCenter::add_feature.  Indices count from 0.
add_feature(self, name) ==
    IF name \in DOMAIN self.id_map THEN self
    ELSE IF create_feature(name).some
    THEN FeatureCenter(Append(self.features, create_feature(name).f),
                       Insert(self.id_map, name, Len(Append(self.features, 0)) - 1))
    ELSE self

\* The names given to add_feature: those of the example, names that differ
\* only in how the half-life is written or in what follows, and names the
\* library cannot create.
BtcSpot == <<"Okx", ".", "BTC", ".", "USDT", ".", "Spot">>
FeatureNames ==
    {<<"MidPx", "_">> \o BtcSpot,
     <<"EmaPx", "_">> \o BtcSpot \o <<"_", "25">>,
     <<"EmaPx", "_">> \o BtcSpot \o <<"_", "025">>,
     <<"MidPx", "_">> \o BtcSpot \o <<"_", "x">>,
     <<"EmaPx", "_">> \o BtcSpot,
     <<"EmaPx", "_">> \o BtcSpot \o <<"_", "x">>,
     <<"MidPx", "_", "Okx", ".", "FOO", ".", "USDT", ".", "Spot">>,
     <<"Vwap", "_">> \o BtcSpot,
     <<"MidPx">>}
MaxAdds == 3

\* center.add_feature(name)
AddFeature ==
    /\ Len(added) < MaxAdds
    /\ \E name \in FeatureNames :
         /\ added' = Append(added, name)
         /\ features' = add_feature(FeatureCenter(features, id_map), name).features
         /\ id_map' = add_feature(FeatureCenter(features, id_map), name).id_map
    /\ UNCHANGED <<bus, restVars, privVars, pubVars, codecVars, apiVars, stgVars>>

NextFeat ==
    \/ AddFeature

SpecFeat == Init /\ [][NextFeat]_vars

\* ------------------------------------------------------------- claims
\* Helpers of the statements below.
IsSynth(e) ==
    \/ e.type = "CancelReject"
    \/ e.type = "ExecutionReport" /\ e.state = "Rejected"
IsOrderCmd(c) == c.type \in {"NewOrder", "CancelOrder"}

RECURSIVE PushedBy(_)
PushedBy(rs) == IF rs = <<>> THEN <<>> ELSE Head(rs).pushed \o PushedBy(Tail(rs))

\* A trade-result or cancel-result acknowledgement: {"id", "op", "code", "msg"}.
IsAck(f) == f.text /\ f.json = "object" /\ f.id # 0 /\ f.op \in {"order", "cancel-order"}
AckedType(f) == IF f.op = "order" THEN "NewOrder" ELSE "CancelOrder"
\* The commands the gateway has handed to the transport that an
\* acknowledgement f names.
Dispatched(f) ==
    {i \in DOMAIN taken :
       hdrOk /\ taken[i].type = AckedType(f) /\ taken[i].cl_ord_id = f.id}
\* The step is one turn of the private client's read loop.
PrivStep == Len(rxlog') = Len(rxlog) + 1
LastRx == rxlog[Len(rxlog)]
NewRx == rxlog'[Len(rxlog')]

C2_FailedAckStep ==
    (PrivStep /\ IsAck(NewRx) /\ NewRx.code # "0" /\ Dispatched(NewRx) # {})
    => \E i \in Dispatched(NewRx) :
         LET c == taken[i]
             e == bus'[Len(bus')]
         IN /\ Len(bus') = Len(bus) + 1
            /\ IsSynth(e)
            /\ e.cl_ord_id = c.cl_ord_id
            /\ e.inst = c.inst
            /\ (c.type = "NewOrder" =>
                  e.type = "ExecutionReport" /\ e.side = c.side
                  /\ e.px = c.px /\ e.sz = c.sz)
            /\ (c.type = "CancelOrder" => e.type = "CancelReject")
C2_FailedAckRejects == [][C2_FailedAckStep]_vars

\* C3: when the private client reads an acknowledgement with code "0" whose
\* id is that of a dispatched command, it pushes nothing; the execution
\* reports the private client pushes are those of the orders stream, one per
\* element, and none of them is a synthesized event.
C3_OkAckStep ==
    /\ (PrivStep /\ IsAck(NewRx) /\ NewRx.code = "0" /\ Dispatched(NewRx) # {})
       => bus' = bus
    /\ (PrivStep /\ bus' # bus) =>
         /\ ~IsAck(NewRx)
         /\ \A k \in (Len(bus) + 1)..Len(bus') : ~IsSynth(bus'[k])
         /\ (\E k \in (Len(bus) + 1)..Len(bus') : bus'[k].type = "ExecutionReport")
            => /\ NewRx.arg = "orders"
               /\ Len(bus') <= Len(bus) + Len(NewRx.data)
               /\ \A k \in 1..(Len(bus') - Len(bus)) :
                    /\ bus'[Len(bus) + k].cl_ord_id = NewRx.data[k].clOrdId
                    /\ bus'[Len(bus) + k].ord_id = NewRx.data[k].ordId
C4_UnmatchedAckIgnored ==
    (rxlog # <<>> /\ IsAck(LastRx) /\ Dispatched(LastRx) = {})
    => priv_exit \in {"none", "closed", "panic_transport"}

\* C5: the login command is the first message written to the socket and is
\* written once; every other message is the subscribe command, and there are
\* never more of them than login results with code "0" read so far; nothing
\* is written or read before the connection is established.
IsLoginResult(f) == f.text /\ f.json = "object" /\ ~(ValidChannel(f.arg) /\ f.hasData)
                    /\ f.code # "none" /\ f.msg
C6_LoginFailedStep ==
    /\ (PrivStep /\ IsLoginResult(NewRx) /\ NewRx.code # "0")
       => /\ pc_priv' = "Returned"
          /\ wire' = wire
          /\ bus' = bus
    /\ (rxlog # <<>> /\ IsLoginResult(LastRx) /\ LastRx.code # "0")
       => /\ pc_priv = "Returned"
          /\ UNCHANGED <<pc_priv, wire, bus, rxlog>>
C6_LoginFailureEnds == [][C6_LoginFailedStep]_vars

\* C6's case: the client ended by a failed login result, having sent only
\* the login command.
C6_Witness ==
    /\ pc_priv = "Returned"
    /\ rxlog # <<>> /\ LastRx.event = "error" /\ LastRx.code # "0"
    /\ wire = <<LoginCmd>>

\* The tokio runtime runs every task that is ready: each step of the two
\* client tasks that stays enabled is eventually taken.
FairSpec ==
    /\ Spec
    /\ WF_vars(RestRecv)
    /\ WF_vars(RestResp)
    /\ WF_vars(PrivConnect)
    /\ WF_vars(PrivLogin)
    /\ WF_vars(PrivRecv)

\* C7: while it is active (logged in and subscribed) the private client
\* serves the command source as well as the socket: every order command
\* placed on the command channel is eventually written to the private
\* connection, unless the client has left the active state.
Active ==
    /\ pc_priv = "Listening"
    /\ \E i \in DOMAIN wire : wire[i].op = "subscribe"
OnWire(c) ==
    \E i \in DOMAIN wire :
        wire[i].op = (IF c.type = "NewOrder" THEN "order" ELSE "cancel-order")
C7_CommandsReachSocket ==
    \A c \in SysCmds :
        (Active /\ \E i \in DOMAIN sentCmds : sentCmds[i] = c)
        ~> (OnWire(c) \/ ~Active)

\* C8: commands leave in the order the strategy side sent them (the gateway
\* takes them first in, first out and issues one request per order command,
\* in that order), and the events of the inbound frames are on the bus in
\* frame arrival order and, within a frame, in data-array order.
RECURSIVE RequestsOf(_)
RequestsOf(cs) ==
    IF cs = <<>> THEN <<>> ELSE <<RequestOf(Head(cs))>> \o RequestsOf(Tail(cs))
RECURSIVE ValidOrderIds(_)
ValidOrderIds(d) ==
    IF d = <<>> THEN <<>>
    ELSE IF Head(d).k = "order" /\ Head(d).state \in KnownOrdStates
         THEN <<Head(d).ordId>> \o ValidOrderIds(Tail(d))
         ELSE <<>>
RECURSIVE OrderIdsOfFrames(_)
OrderIdsOfFrames(fs) ==
    IF fs = <<>> THEN <<>>
    ELSE (IF Head(fs).text /\ Head(fs).json = "object" /\ Head(fs).hasData
             /\ Head(fs).arg = "orders"
          THEN ValidOrderIds(Head(fs).data) ELSE <<>>)
         \o OrderIdsOfFrames(Tail(fs))
IsStreamReport(e) == e.type = "ExecutionReport" /\ e.state # "Rejected"
RECURSIVE OrdIdsOf(_)
OrdIdsOf(es) == IF es = <<>> THEN <<>> ELSE <<Head(es).ord_id>> \o OrdIdsOf(Tail(es))

C9_PostContract ==
    \A i \in DOMAIN results :
        LET r == results[i].resp
            ret == results[i].ret
        IN /\ ret.kind = "Ok" <=>
                (r.transport = "ok" /\ r.json /\ r.code = "0"
                 /\ r.data # <<>> /\ r.data[1].sCode = "0")
           /\ (r.transport = "ok" /\ r.json) =>
                /\ (r.code \notin {"0", "none"} /\ r.msg # "none")
                   => ret = [kind |-> "Err", msg |-> r.msg]
                /\ (r.code = "0" /\ r.data # <<>>
                    /\ r.data[1].sCode \notin {"0", "none"} /\ r.data[1].sMsg # "none")
                   => ret = [kind |-> "Err", msg |-> r.data[1].sMsg]

\* C9's case: one call that succeeded and one that failed on its sCode.
C9_Witness ==
    /\ \E i \in DOMAIN results : results[i].ret.kind = "Ok"
    /\ \E i \in DOMAIN results :
         /\ results[i].ret = [kind |-> "Err", msg |-> "s1"]
         /\ results[i].resp.code = "0"

\* C10: a NewOrder whose submission did not succeed (the call failed in
\* transport, the exchange refused it, or the response could not be read)
\* put exactly one ExecutionReport on the bus, Rejected and with the
\* command's instrument, cl_ord_id, side, order type, price and size; one
\* whose submission succeeded put nothing.
C10_AnyFailureRejected ==
    \A i \in DOMAIN results :
        taken[i].type = "NewOrder" =>
          LET c == taken[i]
              p == results[i].pushed
          IN IF results[i].ret.kind = "Ok" THEN p = <<>>
             ELSE /\ Len(p) = 1
                  /\ p[1].type = "ExecutionReport" /\ p[1].state = "Rejected"
                  /\ p[1].inst = c.inst /\ p[1].cl_ord_id = c.cl_ord_id
                  /\ p[1].side = c.side /\ p[1].ord_type = c.ord_type
                  /\ p[1].px = c.px /\ p[1].sz = c.sz

\* C11: a CancelOrder whose cancellation did not succeed (the call failed in
\* transport, the exchange refused it, or the response could not be read)
\* put exactly one CancelReject on the bus, with the command's instrument
\* and cl_ord_id; one whose cancellation succeeded put nothing.
C11_AnyFailureCancelRejected ==
    \A i \in DOMAIN results :
        taken[i].type = "CancelOrder" =>
          LET c == taken[i]
              p == results[i].pushed
          IN IF results[i].ret.kind = "Ok" THEN p = <<>>
             ELSE /\ Len(p) = 1
                  /\ p[1].type = "CancelReject"
                  /\ p[1].inst = c.inst /\ p[1].cl_ord_id = c.cl_ord_id

\* The instruments whose text forms say all of them: the expiry's year is
\* one a two-digit year is read back as, and the strike has no sign.
Expressible(t) ==
    /\ t.k \in {"Futures", "Options"} => t.exp_date.y \in 1970..2068
    /\ t.k = "Options" => t.stk >= 0
WireTrip == codec = "wire" /\ dir = "inst" /\ x_inst.exch = "Okx" /\ cpc \notin {"start", "encoded"}

\* C12 as stated: every Okx instrument, of any of the five types, encoded by
\* inst_to_str and decoded by str_to_inst is the instrument again.
C12_WireRoundTripAll == WireTrip => x_back = Ok(x_inst)

\* C12, amended: the wire round trip returns the instrument for Spot, Swap,
\* Futures and Options instruments with an expressible expiry and strike; a
\* Margin instrument comes back as the Spot instrument of its currencies.
C12_WireRoundTrip ==
    (WireTrip /\ Expressible(x_inst.inst_type)) =>
        IF x_inst.inst_type = Margin
        THEN x_back = Ok([x_inst EXCEPT !.inst_type = Spot])
        ELSE x_back = Ok(x_inst)

\* C12's case: an option and a margin instrument through the wire form.
C12_Witness ==
    /\ WireTrip /\ cpc = "done"
    /\ x_inst.inst_type.k = "Options" /\ x_inst.inst_type.stk = 10000
    /\ x_back = Ok(x_inst)

CanonTrip == codec = "canon" /\ dir = "inst" /\ cpc \notin {"start", "encoded"}

\* C13 as stated: every instrument written by to_string and read by
\* Inst::try_from is Ok of the instrument again.
C13_CanonRoundTripAll == CanonTrip => x_back = Ok(x_inst)

\* C13, amended: the same for every instrument with an expressible expiry
\* and strike, of all five types and both exchanges.
C13_CanonRoundTrip ==
    (CanonTrip /\ Expressible(x_inst.inst_type)) => x_back = Ok(x_inst)

\* C13's case: a Margin instrument and a future through the canonical form.
C13_Witness ==
    /\ CanonTrip /\ cpc = "done"
    /\ x_inst.inst_type.k = "Futures" /\ x_inst.exch = "BinanceFutures"
    /\ x_back = Ok(x_inst)

\* C14: every string Inst::try_from accepts is what to_string writes for the
\* instrument it returned.
C14_CanonReencode ==
    (codec = "canon" /\ dir = "str" /\ cpc = "done") => x_str2 = x_str

\* C15: decoding a wire string goes by the number of its "-"-separated
\* tokens: two give Spot, three ending in "SWAP" give Swap, three otherwise
\* give Futures of the date the third token spells, five give Options of
\* the date, strike and put/call code tokens three to five spell; and the
\* decoded instrument encodes to the string that was decoded.
WireTokens == Split(x_str, "-")
C15_WireDispatch ==
    (codec = "wire" /\ dir = "str" /\ cpc \in {"decoded", "done"}) =>
        LET n == Len(WireTokens)
            t == x_back.v.inst_type
        IN /\ n \in {2, 3, 5}
           /\ n = 2 => t = Spot
           /\ (n = 3 /\ WireTokens[3] = <<"SWAP">>) => t = Swap
           /\ (n = 3 /\ WireTokens[3] # <<"SWAP">>) =>
                t.k = "Futures" /\ <<FormatYMD(t.exp_date)>> = WireTokens[3]
           /\ n = 5 =>
                /\ t.k = "Options" /\ <<FormatYMD(t.exp_date)>> = WireTokens[3]
                /\ ParseInt(WireTokens[4]).v = t.stk
                /\ <<t.opt_type>> = WireTokens[5]
           /\ cpc = "done" => x_str2 = x_str

\* C16: decoding a wire string never panics, and a string with a currency
\* code that is not one, a malformed date, strike or put/call code, or an
\* unsupported number of tokens yields an error and no instrument.
C16_DecodeFailsWithError ==
    (codec = "wire" /\ dir = "str" /\ cpc # "start") =>
        /\ x_back.kind \in {"Ok", "Err"}
        /\ x_back.kind = "Ok" =>
             /\ CcyTryFrom(WireTokens[1]).ok
             /\ CcyTryFrom(WireTokens[2]).ok

\* The step is one turn of the public client's read loop, on the frame
\* NewPubRx, and pushes PubPushed.
PubStep == Len(pub_rxlog') = Len(pub_rxlog) + 1
NewPubRx == pub_rxlog'[Len(pub_rxlog')]
PubPushed == SubSeq(bus', Len(bus) + 1, Len(bus'))
\* Output levels lv against source levels src: five of them, level i the
\* price and size source level i spells, zeros past the source's last.
LevelsMatch(lv, src) ==
    /\ Len(lv) = 5
    /\ \A i \in 1..5 :
         IF i <= Len(src)
         THEN <<ToString(lv[i][1]), ToString(lv[i][2])>> = <<src[i][1], src[i][2]>>
         ELSE lv[i] = <<0, 0>>
\* Instrument, timestamp and the first five levels of both sides are there.
ValidBooks(v) ==
    /\ v.k = "books"
    /\ v.instId = BtcUsdt
    /\ \A i \in 1..5 :
         /\ i <= Len(v.asks) => v.asks[i] = Level(i)
         /\ i <= Len(v.bids) => v.bids[i] = Level(i)

\* C17: a depth frame whose elements are valid is decoded into one Depth
\* per element, each with exactly 5 ask and 5 bid levels: level i is the
\* price and size of source level i while the source has one, (0, 0) from
\* the source's count on, and source levels past the fifth are not read.
C17_DepthShape ==
    [][(PubStep /\ NewPubRx.text /\ NewPubRx.json = "object" /\ NewPubRx.hasData
          /\ NewPubRx.arg = "books5"
          /\ \A k \in DOMAIN NewPubRx.data : ValidBooks(NewPubRx.data[k])) =>
        /\ pc_pub' = "Streaming"
        /\ Len(PubPushed) = Len(NewPubRx.data)
        /\ \A k \in DOMAIN PubPushed :
             /\ PubPushed[k].type = "Depth"
             /\ LevelsMatch(PubPushed[k].asks, NewPubRx.data[k].asks)
             /\ LevelsMatch(PubPushed[k].bids, NewPubRx.data[k].bids)]_vars
\* A Depth decoded from 3 ask and 5 bid levels, and one from 6 ask levels.
C17_Witness ==
    /\ Len(pub_rxlog) = 2
    /\ pub_rxlog[1] = DataFrame("books5", <<BooksElem(BtcUsdt, 3, 5)>>)
    /\ pub_rxlog[2] = DataFrame("books5", <<BooksElem(BtcUsdt, 6, 2)>>)
    /\ Len(bus) = 2
    /\ bus[1].type = "Depth"
    /\ bus[1].asks[3] = <<103, 3>>
    /\ bus[1].asks[4] = <<0, 0>>
    /\ bus[1].asks[5] = <<0, 0>>
    /\ bus[1].bids[5] = <<105, 5>>
    /\ bus[2].asks[5] = <<105, 5>>
    /\ bus[2].bids[3] = <<0, 0>>

\* Text that is no protocol message, or a data frame with an element that
\* lacks the fields of its channel.
Undecodable(f) ==
    /\ f.text
    /\ \/ f.json = "invalid"
       \/ f.hasData /\ \E k \in DOMAIN f.data : f.data[k].k = "malformed"

\* C18: a turn of the read loop on an unrecognized or malformed frame pushes
\* nothing and leaves the client streaming, ready for the next frame.
C18_MalformedDropped ==
    [][(PubStep /\ Undecodable(NewPubRx)) =>
        (bus' = bus /\ pc_pub' = "Streaming" /\ pub_exit' = pub_exit)]_vars

\* C19: nothing is written or read before the connection is established;
\* once the client is streaming it has written exactly one command, a
\* subscribe with one entry per configured (instrument, data kind) pair,
\* naming that kind's channel and that instrument; and no frame is read
\* before that command is written.
C19_OneSubscribePerPair ==
    /\ pc_pub \in {"Disconnected", "Connected"} => pub_wire = <<>> /\ pub_rxlog = <<>>
    /\ pub_rxlog # <<>> => Len(pub_wire) = 1
    /\ pc_pub = "Streaming" =>
         /\ Len(pub_wire) = 1
         /\ pub_wire[1].op = "subscribe"
         /\ Len(pub_wire[1].args) = Len(requested)
         /\ \A i \in DOMAIN requested :
              /\ pub_wire[1].args[i].channel = ChannelOf(requested[i].data_type)
              /\ pub_wire[1].args[i].instId = inst_to_str(requested[i].inst)

\* The market-data channels and the event each one carries.
MarketChannels == {"books5", "trades", "tickers", "funding-rate", "open-interest"}
EventOf(ch) ==
    CASE ch = "books5" -> "Depth"
      [] ch = "trades" -> "Trade"
      [] ch = "tickers" -> "Ticker"
      [] ch = "funding-rate" -> "FundingRate"
      [] ch = "open-interest" -> "OpenInterest"
Configured(ch) ==
    \E i \in DOMAIN requested : ChannelOf(requested[i].data_type) = ch
\* An element with every field of its channel.
ValidElem(ch, v) ==
    CASE ch = "books5" -> ValidBooks(v)
      [] ch = "trades" ->
           /\ v.k = "trade" /\ v.instId = BtcUsdt /\ v.side \in {"buy", "sell"}
           /\ v.px \in {"101", "102"} /\ v.sz \in {"1", "2"}
      [] OTHER -> v.k = "ticker" /\ v.instId = BtcUsdt

\* C20: a turn of the read loop on a data frame of a configured market-data
\* channel pushes one event per element of the frame, of the variant of the
\* frame's channel, and stays streaming; a turn on a subscribe
\* acknowledgement pushes nothing.
C20_OneEventPerElement ==
    [][(PubStep /\ NewPubRx.text /\ NewPubRx.json = "object") =>
        /\ (/\ NewPubRx.hasData
            /\ NewPubRx.arg \in MarketChannels
            /\ Configured(NewPubRx.arg)
            /\ \A k \in DOMAIN NewPubRx.data : ValidElem(NewPubRx.arg, NewPubRx.data[k])) =>
               /\ pc_pub' = "Streaming"
               /\ Len(PubPushed) = Len(NewPubRx.data)
               /\ \A k \in DOMAIN PubPushed : PubPushed[k].type = EventOf(NewPubRx.arg)
        /\ NewPubRx.event = "subscribe" => PubPushed = <<>>]_vars

\* What one turn of the private client's read loop pushes.
PrivPushed == SubSeq(bus', Len(bus) + 1, Len(bus'))
\* An account-data element with every field of its channel.
ValidAccountElem(ch, v) ==
    CASE ch = "orders" -> v.k = "order" /\ v.state \in KnownOrdStates
      [] ch = "positions" -> v.k = "position"
      [] ch = "balance_and_position" ->
           v.k = "balpos" /\ \A i \in DOMAIN v.balData : v.balData[i] # "bad"
\* The number of balData entries in the elements of a data array.
RECURSIVE BalDataCount(_)
BalDataCount(d) == IF d = <<>> THEN 0 ELSE Len(Head(d).balData) + BalDataCount(Tail(d))

\* C21: a turn of the private read loop on an orders frame pushes one
\* ExecutionReport per data element (element k's order id in report k), on
\* a positions frame one PositionReport per data element, on a
\* balance_and_position frame one BalanceReport per balData entry of every
\* data element; nothing else is pushed, nothing is written to the socket
\* and the client keeps listening.
C21_AccountDemux ==
    [][(PrivStep /\ NewRx.text /\ NewRx.json = "object" /\ NewRx.hasData
          /\ NewRx.arg \in {"orders", "positions", "balance_and_position"}
          /\ \A k \in DOMAIN NewRx.data : ValidAccountElem(NewRx.arg, NewRx.data[k])) =>
        /\ pc_priv' = "Listening"
        /\ wire' = wire
        /\ NewRx.arg = "orders" =>
             /\ Len(PrivPushed) = Len(NewRx.data)
             /\ \A k \in DOMAIN PrivPushed :
                  /\ PrivPushed[k].type = "ExecutionReport"
                  /\ PrivPushed[k].ord_id = NewRx.data[k].ordId
        /\ NewRx.arg = "positions" =>
             /\ Len(PrivPushed) = Len(NewRx.data)
             /\ \A k \in DOMAIN PrivPushed :
                  /\ PrivPushed[k].type = "PositionReport"
                  /\ PrivPushed[k].pos = NewRx.data[k].pos
        /\ NewRx.arg = "balance_and_position" =>
             /\ Len(PrivPushed) = BalDataCount(NewRx.data)
             /\ \A k \in DOMAIN PrivPushed : PrivPushed[k].type = "BalanceReport"]_vars
\* An element with two balData entries gave two BalanceReports, then a
\* positions frame of two elements two PositionReports, then an orders
\* frame of two elements two ExecutionReports.
C21_Witness ==
    /\ Len(rxlog) = 3
    /\ rxlog[1] = DataFrame("balance_and_position", <<BalPosElem(<<"BTC", "ETH">>)>>)
    /\ rxlog[2] = DataFrame("positions", <<PositionElem(1), PositionElem(2)>>)
    /\ rxlog[3] = DataFrame("orders", <<OrderElem(7, 41, "live"), OrderElem(8, 42, "filled")>>)
    /\ Len(bus) = 6
    /\ bus[1].type = "BalanceReport" /\ bus[2].type = "BalanceReport"
    /\ bus[3].type = "PositionReport" /\ bus[4].type = "PositionReport"
    /\ bus[5].type = "ExecutionReport" /\ bus[6].type = "ExecutionReport"

\* The events each client produces, and the ends of a client that a lost
\* connection or a transport error causes.
IsPrivEvent(e) ==
    \/ e.type \in {"PositionReport", "BalanceReport"}
    \/ e.type = "ExecutionReport" /\ e.state # "Rejected"
IsPubEvent(e) == e.type \in {"Depth", "Trade"}
TransportEnds == {"closed", "panic_transport", "panic_send", "panic_connect"}

\* C22: once a client has ended on a lost connection or a transport error
\* it stays ended: it opens no connection, writes no login or subscribe
\* command, reads no frame and pushes no event, whatever the other client
\* goes on to do.
C22_TransportErrorFatal ==
    [][/\ priv_exit \in TransportEnds =>
            /\ pc_priv' = pc_priv /\ priv_exit' = priv_exit
            /\ wire' = wire /\ rxlog' = rxlog
            /\ SelectSeq(bus', IsPrivEvent) = SelectSeq(bus, IsPrivEvent)
       /\ pub_exit \in TransportEnds =>
            /\ pc_pub' = pc_pub /\ pub_exit' = pub_exit
            /\ pub_wire' = pub_wire /\ pub_rxlog' = pub_rxlog
            /\ SelectSeq(bus', IsPubEvent) = SelectSeq(bus, IsPubEvent)]_vars
\* The private client ended on a transport error after it had subscribed
\* and reported an order, the public client on a closed stream after it had
\* pushed a depth.
C22_Witness ==
    /\ priv_exit = "panic_transport"
    /\ Len(wire) = 2
    /\ SelectSeq(bus, IsPrivEvent) # <<>>
    /\ pub_exit = "closed"
    /\ Len(pub_wire) = 1
    /\ SelectSeq(bus, IsPubEvent) # <<>>

\* Some part of the credential is missing.
Incomplete == creds.apikey = "" \/ creds.secretkey = "" \/ creds.passphrase = ""

\* C23: the connector built from an incomplete credential has no private
\* client, and start launches the public client alone: no login command is
\* written and no order or cancel request is issued; built from a complete
\* credential it has a private client, and start launches both clients.
C23_PublicOnlyWithoutCredentials ==
    /\ api.built => (api.private_client <=> ~Incomplete)
    /\ launched # {} =>
         launched = IF Incomplete THEN {"public"} ELSE {"public", "private"}
    /\ Incomplete =>
         /\ pc_priv = "Disconnected" /\ wire = <<>> /\ rxlog = <<>>
         /\ pc_rest = "Idle" /\ httplog = <<>>
\* Built without a secret key: the public client alone runs and has pushed
\* a depth.
C23_Witness ==
    /\ creds = Credential("x", "", "x")
    /\ api.built
    /\ launched = {"public"}
    /\ pc_pub = "Streaming"
    /\ SelectSeq(bus, IsPubEvent) # <<>>

\* C24: neither channel ever holds more messages than its capacity; every
\* message a producer has sent is either received or still queued, in the
\* order sent (none is dropped or overwritten); and while the event channel
\* is full with its receiver alive, no producer's send completes or fails:
\* the producer waits.
C24_BoundedBackpressure ==
    [][/\ Len(evQ') <= Buffer
       /\ Len(cmdQ') <= Buffer
       /\ got' \o evQ' = bus'
       /\ (Len(evQ) = Buffer /\ evOpen) =>
            /\ bus' = bus
            /\ \A p \in Producers : p_pc'[p] = "Panicked" => p_pc[p] = "Panicked"]_vars
\* The event channel is full again after the loop took a message from a
\* full channel: a producer that waited has sent.
C24_Witness ==
    /\ Len(evQ) = Buffer
    /\ Len(bus) = Buffer + 1
    /\ Len(got) = 1
    /\ evOpen
    /\ p_pc["private"] = "Running"

\* C25: the gateway loop ends by itself only when every sender of the
\* command channel is gone and the queue is empty, every command sent
\* having been taken; and once the receiver of the event channel is gone no
\* message is queued or counted as sent any more, and a producing task that
\* tries to send ends.
C25_ClosureSignalsShutdown ==
    [][/\ pc_rest' = "Returned" => (~cmdOpen' /\ cmdQ' = <<>> /\ taken' = sentCmds')
       /\ ~evOpen =>
            /\ bus' = bus /\ evQ' = evQ
            /\ \A p \in Producers :
                 p_pc'[p] # p_pc[p] => p_pc'[p] \in {"Panicked", "Returned"}]_vars
\* The gateway returned after taking both commands sent, and a producing
\* task ended on a send after the receiver was dropped.
C25_Witness ==
    /\ pc_rest = "Returned"
    /\ Len(sentCmds) = 2 /\ taken = sentCmds /\ Len(httplog) = 2
    /\ ~evOpen
    /\ bus # <<>>
    /\ p_pc["public"] = "Panicked"

\* C26: building a subscribe command from a subscription list is
\* deterministic: two constructions by the same code (the builder, the public
\* client, the private client) from the same list give the same command, the
\* order of its topics included.
C26_SubscribeDeterministic ==
    \A i, j \in DOMAIN sub_log :
        (sub_log[i].by = sub_log[j].by /\ sub_log[i].list = sub_log[j].list)
            => sub_log[i].cmd = sub_log[j].cmd

\* The topics of a private subscribe command, by channel and family.
TopicCount(cmd, ch, t) ==
    Cardinality({k \in DOMAIN cmd.args :
        /\ cmd.args[k].channel = ch
        /\ "instType" \in DOMAIN cmd.args[k]
        /\ cmd.args[k].instType = t})
BalanceCount(cmd) ==
    Cardinality({k \in DOMAIN cmd.args : cmd.args[k] = [channel |-> "balance_and_position"]})
FamilyOf(inst) ==
    CASE inst.inst_type.k = "Spot" -> "SPOT"
      [] inst.inst_type.k = "Margin" -> "MARGIN"
      [] inst.inst_type.k = "Swap" -> "SWAP"
      [] inst.inst_type.k = "Futures" -> "FUTURES"
      [] inst.inst_type.k = "Options" -> "OPTION"
InstFamilies == {"SPOT", "MARGIN", "SWAP", "FUTURES", "OPTION"}
ConfiguredFamilies(list) == {FamilyOf(list[i]) : i \in DOMAIN list}

MatchingCallback(t) ==
    CASE t = "Depth" -> "on_depth"
      [] t = "Trade" -> "on_trade"
      [] t = "Ticker" -> "on_ticker"
      [] t = "FundingRate" -> "on_funding_rate"
      [] t = "OpenInterest" -> "on_open_interest"
      [] t = "ExecutionReport" -> "on_execution_report"
      [] t = "CancelReject" -> "on_cancel_reject"
      [] t = "BalanceReport" -> "on_balance_report"
      [] t = "PositionReport" -> "on_position_report"
      [] OTHER -> "none"
RetsOf(cs) == [k \in DOMAIN cs |-> cs[k].ret]
IsCmd(r) == r # NoReq

\* C28: every event received from the event channel is handed to the
\* matching callback of the strategy exactly once, in the order received,
\* and the commands the callbacks returned have all been sent on the command
\* channel by the time the loop waits for the next event.
C28_CallbackPerEvent ==
    /\ Len(calls) = Len(got)
    /\ \A k \in DOMAIN calls :
         /\ k \in DOMAIN got
         /\ calls[k].msg = got[k]
         /\ calls[k].cb = MatchingCallback(got[k].type)
    /\ s_pc = "Recv" => sentCmds = SelectSeq(RetsOf(calls), IsCmd)

\* get_sign is called with the client's secretkey: by PrivateWsClient::run
\* when it makes login_cmd, once connected, and by get_headers for every
\* order command the gateway takes.
LoginSigned == pc_priv \in {"Listening", "Returned"} \/ priv_exit = "panic_send"
RestSigned == \E i \in DOMAIN taken : taken[i].type \in {"NewOrder", "CancelOrder"}

\* C29: whenever a login signature or a REST request signature has been
\* computed, the secret key it was computed with is not empty.
C29_SignerSecretNonEmpty ==
    (LoginSigned \/ RestSigned) => creds.secretkey # ""

\* The text frames either client has read, and the shapes of a frame.
FramesRead ==
    {rxlog[i] : i \in DOMAIN rxlog} \cup {pub_rxlog[i] : i \in DOMAIN pub_rxlog}
HasArg(f) == f.arg # "none"
HasCodeMsg(f) == f.code # "none" /\ f.msg
LoginSucceeded(f) == HandleLoginResult(f) = Outcome(<<>>, <<SubCmd>>, "none")

\* C30: a frame read is classified by its shape: with arg and data it is a
\* data frame; with code and msg, as the login and error events are, it is a
\* login result, which is successful exactly when its code is "0"; with arg
\* and no data, as the subscribe event is, it is a subscribe acknowledgement.
C30_ClassifiedByShape ==
    \A f \in FramesRead :
        (f.text /\ f.json = "object") =>
            /\ (HasArg(f) /\ f.hasData) => WsMessageOf(f) = "Data"
            /\ (HasCodeMsg(f) /\ f.event \in {"login", "error"}) =>
                 /\ WsMessageOf(f) = "LoginResult"
                 /\ LoginSucceeded(f) <=> f.code = "0"
            /\ (HasArg(f) /\ ~f.hasData /\ f.event = "subscribe") =>
                 WsMessageOf(f) = "SubscribeResult"

\* The parts of a tuple that convert, each by its own type's conversion.
PartsValid(t) ==
    /\ Len(t[1]) = 1 /\ t[1][1] \in ExchNames
    /\ CcyTryFrom(t[2]).ok
    /\ CcyTryFrom(t[3]).ok
    /\ InstTypeTryFrom(t[4]).kind = "Ok"

LoggedIn == \E i \in DOMAIN wire : wire[i] = SubCmd
NonZeroCode(f) == f.text /\ f.json = "object" /\ f.code \notin {"none", "0"}

\* C32: once the login has succeeded, a frame carrying a non-zero code (an
\* error event, a failed order or cancel acknowledgement) does not end the
\* private client: it is still listening after reading it.
C32_NonZeroCodeKeepsSession ==
    [][(/\ LoggedIn
        /\ pc_priv = "Listening"
        /\ Len(rxlog') = Len(rxlog) + 1
        /\ NonZeroCode(rxlog'[Len(rxlog')]))
       => pc_priv' = "Listening"]_vars

\* C33: within one session of the private client the subscribe command is
\* written at most once, whatever frames follow the first successful login
\* result.
C33_SubscribeAtMostOnce ==
    Cardinality({i \in DOMAIN wire : wire[i] = SubCmd}) <= 1

\* C34: the driving loop is never waiting to send a command on a full
\* command channel while the gateway, which drains that channel, is waiting
\* to push an event on a full event channel.
C34_NoDeadlock ==
    ~(/\ s_pc = "Reply" /\ ~HasCapacity(cmdQ)
      /\ pc_rest = "Pushing" /\ evOpen /\ ~HasCapacity(evQ))

\* C35: while the public client is streaming, every event pushed on the
\* event channel is eventually received by the driving loop (and handed to
\* the callback of its type), unless the stream or the loop has ended.
Streaming == p_pc["public"] = "Running"
LoopEnded == s_pc \in {"Ok", "Err"}
C35_StreamedEventsHandled ==
    \A n \in 1..MaxEvents :
        (Len(bus) >= n /\ Streaming) ~> (Len(got) >= n \/ ~Streaming \/ LoopEnded)

\* C36: the gateway handles the commands one at a time, in the order of the
\* command channel: it takes the head of the channel, and only when the HTTP
\* call of every command taken before has completed and its rejection, if
\* any, is on the bus; at most one HTTP request is in flight; the rejections
\* on the bus are those of the failed commands, in the order the commands
\* were taken.
CompletedCalls == Cardinality({i \in DOMAIN results : results[i].resp # NoResp})
InFlight == Len(httplog) - CompletedCalls
RECURSIVE RejectionsUpTo(_)
RejectionsUpTo(n) ==
    IF n = 0 THEN <<>>
    ELSE RejectionsUpTo(n - 1)
         \o (IF results[n].ret.kind = "Err" THEN <<RejectionOf(taken[n])>> ELSE <<>>)
TakesNext == Len(taken') = Len(taken) + 1
C36_OneAtATime ==
    /\ [](/\ InFlight = (IF pc_rest = "Posting" THEN 1 ELSE 0)
          /\ SelectSeq(bus, IsSynth) = RejectionsUpTo(Len(results)))
    /\ [][TakesNext =>
            /\ pc_rest = "Idle" /\ InFlight = 0
            /\ Len(results) = Len(taken)
            /\ SelectSeq(bus, IsSynth) = RejectionsUpTo(Len(taken))
            /\ taken' = Append(taken, Head(cmdQ))
            /\ cmdQ' = Tail(cmdQ)]_vars

\* C36's case: two different commands taken one after the other, both
\* failed, their two rejections on the bus.
C36_Witness ==
    /\ Len(taken) = 2 /\ taken[1] # taken[2]
    /\ Len(results) = 2
    /\ Len(httplog) = 2
    /\ Len(SelectSeq(bus, IsSynth)) = 2
    /\ bus[1] # bus[2]

\* C37: Inst::try_from(&str) never panics; a string that does not split on
\* "." into exactly four parts gives an error; for a string of four parts
\* the error names the first field that does not parse, in the order
\* exchange, base currency, quote currency, instrument type.
FieldMsg ==
    <<"invalid exchange", "invalid base currency", "invalid quote currency",
      "invalid instrument type">>
FieldParses(i, part) ==
    CASE i = 1 -> Len(part) = 1 /\ part[1] \in ExchNames
      [] i = 2 -> CcyTryFrom(part).ok
      [] i = 3 -> CcyTryFrom(part).ok
      [] i = 4 -> InstTypeTryFrom(part).kind = "Ok"
InvalidFields(parts) == {i \in 1..4 : ~FieldParses(i, parts[i])}
FirstInvalid(parts) ==
    CHOOSE i \in InvalidFields(parts) : \A j \in InvalidFields(parts) : i <= j
CanonParsed == codec = "canon" /\ dir = "str" /\ cpc # "start"
CanonParts == Split(x_str, ".")
C37_ErrorNamesFirstInvalid ==
    CanonParsed =>
        /\ cpc # "panicked" /\ x_back.kind \in {"Ok", "Err"}
        /\ Len(CanonParts) # 4 => x_back.kind = "Err"
        /\ (Len(CanonParts) = 4 /\ InvalidFields(CanonParts) # {}) =>
               x_back = Err(FieldMsg[FirstInvalid(CanonParts)])
        /\ (Len(CanonParts) = 4 /\ InvalidFields(CanonParts) = {}) => x_back.kind = "Ok"

\* C37's case: a string of four parts, three of which do not parse, the
\* error naming the first of them.
C37_Witness ==
    /\ CanonParsed /\ cpc = "failed"
    /\ Len(CanonParts) = 4
    /\ InvalidFields(CanonParts) = {2, 3, 4}
    /\ x_back.err = "invalid base currency"

\* C38: after any sequence of add_feature calls id_map has exactly one
\* entry per element of features; the entries map to distinct valid indices,
\* each name to the feature created for it, in the order the names were
\* first given; a call with a name already registered, or with a name the
\* library cannot create, leaves features and id_map unchanged.
FirstGiven(name) ==
    CHOOSE i \in DOMAIN added : added[i] = name /\ \A j \in 1..(i - 1) : added[j] # name
LastAdded == added'[Len(added')]
C38_IdMapConsistent ==
    /\ [](/\ Cardinality(DOMAIN id_map) = Len(features)
          /\ {id_map[n] : n \in DOMAIN id_map} = 0..(Len(features) - 1)
          /\ \A n \in DOMAIN id_map :
               /\ \E i \in DOMAIN added : added[i] = n
               /\ features[id_map[n] + 1] = create_feature(n).f
               /\ \A o \in DOMAIN id_map :
                    (id_map[n] < id_map[o]) <=> (FirstGiven(n) < FirstGiven(o)))
    /\ [][(/\ Len(added') = Len(added) + 1
           /\ (LastAdded \in DOMAIN id_map \/ ~create_feature(LastAdded).some))
          => UNCHANGED <<features, id_map>>]_vars

\* C38's case: three calls, two different names registered and the first
\* of them given again.
C38_Witness ==
    /\ Len(added) = 3 /\ added[3] = added[1] /\ added[2] # added[1]
    /\ Len(features) = 2
    /\ DOMAIN id_map = {added[1], added[2]}
    /\ id_map[added[1]] = 0 /\ id_map[added[2]] = 1

====
